---- MODULE Spec2Model ----
(***************************************************************************)
(* MeshPay: opportunistic mesh relay (nodes/mesh_utils.py), buffered       *)
(* client (nodes/client1.py) and the authority decision procedure          *)
(* (spec 4.F; the authority class is not part of the source tree).         *)
(*                                                                         *)
(* Every node owns a FIFO receive queue (MeshMixin.message_queue).  One    *)
(* action is one whole handler: a public call, or the processing of one    *)
(* received message by the receive worker.  The retry worker is a second   *)
(* thread of the client that shares the client's fields without a lock;    *)
(* its loop body is cut at the blocking flood, so that the receive worker  *)
(* can run between the re-submit and the quorum re-check.  Wall-clock time *)
(* (now) advances only in the scenarios with a tick action; in the others  *)
(* neighbour staleness never triggers.                                     *)
(***************************************************************************)
EXTENDS Integers, Sequences, FiniteSets, TLC

VARIABLES
    node,               \* node id -> the node object's fields
    inbox,              \* node id -> FIFO of Message records not yet processed
    DEFAULT_RELAY_TTL,  \* configuration value, fixed by Init
    emitted,            \* history: the ConfirmationOrders built by broadcast_confirmation, in order
    delivered,          \* history: <<node, order_id, inner type>> -> callback invocations
    next_order_id,      \* uuid4(): the next fresh order id
    now,                \* time.time(), in units of DISCOVERY_INTERVAL
    thread,             \* worker -> position and locals of that worker of DiscoveryNode
    last_beacon,        \* history: peer -> time of its last verified beacon at DiscoveryNode
    controller          \* the D-SDN controller's QoSManager and FallbackProfile, and the qdiscs they set

vars == <<node, inbox, DEFAULT_RELAY_TTL, emitted, delivered, next_order_id, now, thread, last_beacon, controller>>

(***************************************************************************)
(* Bounds                                                                  *)
(***************************************************************************)
MaxOrders == 2
MaxRetry == 2

(***************************************************************************)
(* Identities and enumerations                                             *)
(***************************************************************************)
Clients == {"C", "R", "N1", "N2"}
Authorities == {"A1", "A2", "A3", "A4"}
Nodes == Clients \cup Authorities
\* the Mininet-WiFi station the controller manages
Stations == {"sta1"}
OrderIds == 1..(MaxOrders + 1)

TRANSFER_REQUEST == "transfer_request"
TRANSFER_RESPONSE == "transfer_response"
CONFIRMATION_REQUEST == "confirmation_request"
BUFFERED == "buffered"
CONFIRMED == "confirmed"
FINALIZED == "finalized"
\* Python None for the optional arguments of _build_relay_message
NoneStr == ""
NoneInt == -1
NoneSeq == <<"None">>

\* pending_transfer = None
NoOrder == [order_id |-> 0, sender |-> NoneStr, recipient |-> NoneStr,
            amount |-> 0, sequence_number |-> 0]

TransferOrder(order_id, sender, recipient, amount, sequence_number) ==
    [order_id |-> order_id, sender |-> sender, recipient |-> recipient,
     amount |-> amount, sequence_number |-> sequence_number]

NoConfirmation == [order_id |-> 0, transfer_order |-> NoOrder,
                   authority_signatures |-> <<>>, status |-> NoneStr]

ConfirmationOrder(order, sigs, status) ==
    [order_id |-> order.order_id, transfer_order |-> order,
     authority_signatures |-> sigs, status |-> status]

\* Inner payloads.  One record shape carries the three payload kinds; the
\* fields a kind does not have are left at their empty value.
TransferRequestMessage(order) ==
    [transfer_order |-> order, success |-> FALSE, error_message |-> NoneStr,
     authority_signature |-> NoneStr, confirmation_order |-> NoConfirmation]

ConfirmationRequestMessage(conf) ==
    [transfer_order |-> NoOrder, success |-> FALSE, error_message |-> NoneStr,
     authority_signature |-> NoneStr, confirmation_order |-> conf]

MeshRelayMessage(original_sender_id, origin_address, inner_message_type, inner_payload, order_id, ttl, hop_path) ==
    [original_sender_id |-> original_sender_id, origin_address |-> origin_address,
     inner_message_type |-> inner_message_type, inner_payload |-> inner_payload,
     order_id |-> order_id, ttl |-> ttl, hop_path |-> hop_path]

\* The MESH_RELAY envelope, stamped with time.time() when it is built
Message(sender, recipient, payload) ==
    [sender |-> sender, recipient |-> recipient, timestamp |-> now, payload |-> payload]

BufferedTransaction(order, signatures_required) ==
    [order |-> order, signatures_received |-> {}, signatures_required |-> signatures_required,
     retry_count |-> 0, status |-> BUFFERED, is_relay |-> FALSE]

InPath(nid, hop_path) == \E i \in 1..Len(hop_path) : hop_path[i] = nid

\* the working state of one handler: the node's fields, the queues of all
\* nodes, and the two history variables
Ctx(st, net, em, dl) == [st |-> st, net |-> net, em |-> em, dl |-> dl]

\* the element of a one-element set: { f(x) : x \in {e} } computes e once
\* and hands its value to f
Result(S) == CHOOSE r \in S : TRUE

\* the number of callback invocations recorded for a key of the history
Count(dl, k) == IF k \in DOMAIN dl THEN dl[k] ELSE 0

Delivered(c, self, order_id, inner_type) ==
    LET k == <<self, order_id, inner_type>>
    IN [c EXCEPT !.dl = [x \in DOMAIN @ \cup {k} |-> IF x = k THEN Count(@, k) + 1 ELSE @[x]]]

(***************************************************************************)
(* Relay engine (MeshMixin)                                                *)
(***************************************************************************)
\* mn_wifi.services.core.config, in units of 5 s: the defaults are 15.0 s and
\* 5.0 s
NEIGHBOR_TIMEOUT == 3
DEFAULT_MISS_THRESHOLD == 3
DISCOVERY_INTERVAL == 1

\* the PeerInfo table without the entry of nid
WithoutPeer(p2p, nid) == [q \in DOMAIN p2p \ {nid} |-> p2p[q]]

\* the PeerInfo table with last_seen of nid set to t
WithPeer(p2p, nid, t) == [q \in DOMAIN p2p \cup {nid} |-> IF q = nid THEN t ELSE p2p[q]]

\* get_neighbors: the ids whose PeerInfo is older than NEIGHBOR_TIMEOUT at t
stale_ids(st, t) ==
    {nid \in DOMAIN st.p2p_connections : t - st.p2p_connections[nid] > NEIGHBOR_TIMEOUT}

\* get_neighbors run without interruption: the node after the stale ids are
\* removed
prune_stale(st) ==
    [st EXCEPT !.neighbors = @ \ stale_ids(st, now),
               !.p2p_connections = [q \in DOMAIN @ \ stale_ids(st, now) |-> @[q]]]

\* the snapshot get_neighbors returns
get_neighbors(st) == prune_stale(st).neighbors

\* a faulty flood that evicts the neighbours whose send failed
after_relay_evict_failing(st, relay) ==
    IF relay.ttl <= 0 THEN st
    ELSE [prune_stale(st) EXCEPT
            !.neighbors = @ \ st.send_failing,
            !.p2p_connections = [q \in DOMAIN @ \ st.send_failing |-> @[q]]]

\* the node after _relay_to_neighbors: get_neighbors has pruned the table
\* unless the TTL had expired
after_relay(st, relay) == IF relay.ttl <= 0 THEN st ELSE prune_stale(st)

\* a faulty builder whose default TTL is one hop too generous
build_relay_message_ttl_plus_one(self, inner_type, inner_payload, order_id, sender_id, origin_address, ttl, hop_path) ==
    MeshRelayMessage(
        IF sender_id # NoneStr THEN sender_id ELSE self,
        IF origin_address # NoneStr THEN origin_address ELSE self,
        inner_type, inner_payload, order_id,
        IF ttl # NoneInt THEN ttl ELSE DEFAULT_RELAY_TTL + 1,
        IF hop_path # NoneSeq THEN hop_path ELSE <<self>>)

\* a faulty builder that always stamps the builder's own address
build_relay_message_own_address(self, inner_type, inner_payload, order_id, sender_id, origin_address, ttl, hop_path) ==
    MeshRelayMessage(
        IF sender_id # NoneStr THEN sender_id ELSE self,
        self,
        inner_type, inner_payload, order_id,
        IF ttl # NoneInt THEN ttl ELSE DEFAULT_RELAY_TTL,
        IF hop_path # NoneSeq THEN hop_path ELSE <<self>>)

build_relay_message(self, inner_type, inner_payload, order_id, sender_id, origin_address, ttl, hop_path) ==
    MeshRelayMessage(
        IF sender_id # NoneStr THEN sender_id ELSE self,
        IF origin_address # NoneStr THEN origin_address ELSE self,
        inner_type, inner_payload, order_id,
        IF ttl # NoneInt THEN ttl ELSE DEFAULT_RELAY_TTL,
        IF hop_path # NoneSeq THEN hop_path ELSE <<self>>)

\* a faulty flood that ignores hop_path when it picks the receivers
relay_to_neighbors_no_split_horizon(net, self, st, relay) ==
    IF relay.ttl <= 0 THEN net
    ELSE [d \in Nodes |->
            IF d \in get_neighbors(st) /\ d \notin st.send_failing
            THEN Append(net[d], Message(self, d, relay))
            ELSE net[d]]

\* transport.send_message returns False for the destinations in
\* send_failing, and nothing reaches them
relay_to_neighbors(net, self, st, relay) ==
    IF relay.ttl <= 0 THEN net
    ELSE [d \in Nodes |->
            IF d \in get_neighbors(st) /\ ~InPath(d, relay.hop_path)
               /\ d \notin st.send_failing
            THEN Append(net[d], Message(self, d, relay))
            ELSE net[d]]

\* a faulty re-relay that forgets to decrement the TTL
next_relay_keep_ttl(self, relay) ==
    [relay EXCEPT !.hop_path = Append(relay.hop_path, self)]

\* a faulty re-relay that appends the first hop again instead of self.name
next_relay_append_first(self, relay) ==
    [relay EXCEPT !.ttl = relay.ttl - 1,
                  !.hop_path = Append(relay.hop_path, relay.hop_path[1])]

\* a faulty re-relay that names the forwarder as the bundle's original sender
next_relay_rewrite_sender(self, relay) ==
    [relay EXCEPT !.ttl = relay.ttl - 1, !.hop_path = Append(relay.hop_path, self),
                  !.original_sender_id = self]

next_relay(self, relay) ==
    [relay EXCEPT !.ttl = relay.ttl - 1, !.hop_path = Append(relay.hop_path, self)]

(***************************************************************************)
(* Python float arithmetic (IEEE 754 binary64, round to nearest, ties to   *)
(* even) on the values the quorum formulas meet.  A float is a 60-bit      *)
(* integer in three limbs of 20 bits, l2 the most significant, scaled by   *)
(* 2^-(40 + sp): its value is (l2 * 2^40 + l1 * 2^20 + l0) / 2^(40 + sp).  *)
(* A result of an operation has a 53-bit mantissa: l2 has 13 bits.         *)
(***************************************************************************)
Limb == 1048576

RECURSIVE Pow2(_)
Pow2(k) == IF k = 0 THEN 1 ELSE 2 * Pow2(k - 1)

\* int.bit_length
BitLen(x) == CHOOSE k \in 0..31 : x < Pow2(k) /\ (k = 0 \/ Pow2(k - 1) <= x)

PyFloat(l0, l1, l2, sp) == [l0 |-> l0, l1 |-> l1, l2 |-> l2, sp |-> sp]

\* carry propagation from the low limb upwards
Carry(l0, l1, l2, sp) ==
    PyFloat(l0 % Limb, (l1 + l0 \div Limb) % Limb, l2 + (l1 + l0 \div Limb) \div Limb, sp)

\* a / b for ints a >= 0, b > 0 with a / b < 128: the quotient is developed
\* to 53 bits by long division and rounded on the remainder
py_truediv(a, b) ==
    IF a = 0 THEN PyFloat(0, 0, 0, 0)
    ELSE LET sp == CHOOSE k \in 0..13 : 4096 * b <= a * Pow2(k) /\ a * Pow2(k) < 8192 * b
             d2 == a * Pow2(sp)
             q2 == d2 \div b
             r2 == d2 % b
             q1 == (r2 * Limb) \div b
             r1 == (r2 * Limb) % b
             q0 == (r1 * Limb) \div b
             r0 == (r1 * Limb) % b
             up == 2 * r0 > b \/ (2 * r0 = b /\ q0 % 2 = 1)
         IN Carry(q0 + (IF up THEN 1 ELSE 0), q1, q2, sp)

\* a faulty product that truncates the mantissa instead of rounding it
py_mul_truncating(n, f) ==
    IF n = 0 \/ f.l2 = 0 THEN PyFloat(0, 0, 0, 0)
    ELSE LET p == Carry(n * f.l0, n * f.l1, n * f.l2, f.sp)
             sh == BitLen(p.l2) - 13
             rem == p.l0 % Pow2(sh)
         IN Carry(p.l0 - rem, p.l1, p.l2, p.sp)

\* n * f for an int n in 0..127 and a float f: the exact product is rounded
\* to 53 bits, to nearest, ties to even
py_mul(n, f) ==
    IF n = 0 \/ f.l2 = 0 THEN PyFloat(0, 0, 0, 0)
    ELSE LET p == Carry(n * f.l0, n * f.l1, n * f.l2, f.sp)
             sh == BitLen(p.l2) - 13
             rem == p.l0 % Pow2(sh)
             odd == (p.l0 \div Pow2(sh)) % 2 = 1
             up == sh > 0 /\ (2 * rem > Pow2(sh) \/ (2 * rem = Pow2(sh) /\ odd))
         IN Carry(p.l0 - rem + (IF up THEN Pow2(sh) ELSE 0), p.l1, p.l2, p.sp)

\* int(f) for f >= 0: truncation
py_int(f) == f.l2 \div Pow2(f.sp)

(***************************************************************************)
(* Buffered client (nodes/client1.py)                                      *)
(***************************************************************************)
\* Client._calculate_quorum: int(committee_size * 2 / 3) + 1
calculate_quorum(st) == py_int(py_truediv(Cardinality(st.committee) * 2, 3)) + 1

\* nodes/client.py: int(committee_size * 2 / 3) + 1 if committee_size > 0 else 1
simple_client_quorum(committee_size) ==
    IF committee_size > 0 THEN py_int(py_truediv(committee_size * 2, 3)) + 1 ELSE 1

\* MeshPayCLI.__init__: int(len(authorities) * quorum_ratio) + 1, with the
\* default of quorum_ratio, 2 / 3
quorum_weight(authorities) ==
    LET quorum_ratio == py_truediv(2, 3)
    IN py_int(py_mul(Cardinality(authorities), quorum_ratio)) + 1

CertsFor(st, order_id) ==
    LET Match(c) == c.transfer_order.order_id = order_id
    IN SelectSeq(st.sent_certificates, Match)

validate_transfer_response(st, self, resp) ==
    /\ resp.transfer_order.sender = self
    /\ resp.transfer_order.sequence_number = st.sequence_number

track_signature(st, resp) ==
    LET add_signature(bt, authority_name) ==
            [bt EXCEPT !.signatures_received = @ \cup {authority_name}]
    IN
    LET order_id == resp.transfer_order.order_id
        auth_name == IF resp.authority_signature # NoneStr
                     THEN resp.authority_signature ELSE "unknown"
        st1 == [st EXCEPT !.sent_certificates = Append(@, resp)]
    IN IF order_id \in st.transaction_queue
       THEN [st1 EXCEPT !.btx[order_id] = add_signature(@, auth_name)]
       ELSE st1

check_quorum(st, order_id) == Len(CertsFor(st, order_id)) >= st.quorum_threshold

\* broadcast_confirmation from the certificate test to the return of
\* _relay_to_neighbors, for a pending order that has its certificates
broadcast_confirmation_relay(self, c) ==
    LET order == c.st.pending_transfer
        relevant_certs == CertsFor(c.st, order.order_id)
        transfer_signatures ==
            [i \in 1..Len(relevant_certs) |-> relevant_certs[i].authority_signature]
        confirmation == ConfirmationOrder(order, transfer_signatures, CONFIRMED)
        relay_msg == build_relay_message(self, CONFIRMATION_REQUEST,
                         ConfirmationRequestMessage(confirmation), order.order_id,
                         NoneStr, NoneStr, NoneInt, NoneSeq)
    IN [c EXCEPT
          !.net = relay_to_neighbors(@, self, c.st, relay_msg),
          !.em = Append(@, confirmation),
          !.st = after_relay(@, relay_msg)]

\* a faulty clean-up that drops every collected certificate
broadcast_confirmation_clear_all(order, c) ==
    [c EXCEPT
       !.st.pending_transfer = NoOrder,
       !.st.sequence_number = @ + 1,
       !.st.sent_certificates = <<>>,
       !.st.balance = @ - order.amount]

\* broadcast_confirmation after the flood ("Clear local state"); order is the
\* local variable read at the top of the call
broadcast_confirmation_clear(order, c) ==
    LET Other(cert) == cert.transfer_order.order_id # order.order_id
    IN [c EXCEPT
          !.st.pending_transfer = NoOrder,
          !.st.sequence_number = @ + 1,
          !.st.sent_certificates = SelectSeq(@, Other),
          !.st.balance = @ - order.amount]

\* the whole call, run without a switch to another worker
broadcast_confirmation(self, c) ==
    LET order == c.st.pending_transfer
    IN IF order = NoOrder THEN c
       ELSE IF Len(CertsFor(c.st, order.order_id)) < c.st.quorum_threshold THEN c
       ELSE broadcast_confirmation_clear(order, broadcast_confirmation_relay(self, c))

on_quorum_reached(self, order_id, c) ==
    Result({ IF order_id \in c1.st.transaction_queue
             THEN [c1 EXCEPT !.st.btx[order_id].status = FINALIZED,
                             !.st.transaction_queue = @ \ {order_id}]
             ELSE c1 : c1 \in {broadcast_confirmation(self, c)} })

handle_transfer_response(self, resp, c) ==
    IF ~validate_transfer_response(c.st, self, resp) THEN c
    ELSE Result({ IF check_quorum(c1.st, resp.transfer_order.order_id)
                     /\ c1.st.pending_transfer # NoOrder
                  THEN on_quorum_reached(self, resp.transfer_order.order_id, c1)
                  ELSE c1 : c1 \in {[c EXCEPT !.st = track_signature(@, resp)]} })

handle_confirmation_order(self, confirmation_order, c) ==
    LET transfer == confirmation_order.transfer_order
    IN IF transfer.recipient # self THEN c
       ELSE [c EXCEPT
               !.st.balance = @ + transfer.amount,
               !.st.seen_order_ids = @ \ {transfer.order_id},
               !.st.transaction_queue = @ \ {transfer.order_id}]

(***************************************************************************)
(* Authority decision procedure (spec 4.F)                                 *)
(***************************************************************************)
authority_verdict(acct, order) ==
    LET AccountFunds == 100
    IN
    IF order.sequence_number # acct.sequence_number THEN "SEQUENCE_MISMATCH"
    ELSE IF acct.pending_confirmation # 0 /\ acct.pending_confirmation # order.order_id
         THEN "CONFLICTING_LOCK"
    ELSE IF AccountFunds < order.amount THEN "INSUFFICIENT_FUNDS"
    ELSE "OK"

authority_on_transfer_request(self, relay, c) ==
    LET TransferResponseMessage(order, success, error_message, authority_signature) ==
            [transfer_order |-> order, success |-> success, error_message |-> error_message,
             authority_signature |-> authority_signature, confirmation_order |-> NoConfirmation]
    IN
    LET order == relay.inner_payload.transfer_order
        verdict == authority_verdict(c.st.accounts[order.sender], order)
        resp == TransferResponseMessage(order, verdict = "OK",
                    IF verdict = "OK" THEN NoneStr ELSE verdict, self)
        relay_msg == build_relay_message(self, TRANSFER_RESPONSE, resp, order.order_id,
                         order.sender, relay.origin_address, NoneInt, NoneSeq)
        c1 == IF verdict = "OK"
              THEN [c EXCEPT !.st.accounts[order.sender].pending_confirmation = order.order_id]
              ELSE c
    IN [c1 EXCEPT !.net = relay_to_neighbors(@, self, c1.st, relay_msg),
                  !.st = after_relay(@, relay_msg)]

(***************************************************************************)
(* MeshMixin._handle_mesh_relay                                            *)
(***************************************************************************)
IsDuplicate(st, self, relay) ==
    /\ relay.order_id \in st.seen_order_ids
    /\ ~(relay.inner_message_type = TRANSFER_RESPONSE /\ relay.original_sender_id = self)

\* a local-delivery step that hands every bundle to the callback of its type,
\* without the address tests
deliver_unaddressed(self, relay, c) ==
    IF relay.inner_message_type = TRANSFER_RESPONSE
    THEN IF self \in Clients
         THEN handle_transfer_response(self, relay.inner_payload,
                  Delivered(c, self, relay.order_id, TRANSFER_RESPONSE))
         ELSE c
    ELSE IF relay.inner_message_type = TRANSFER_REQUEST
    THEN IF self \in Authorities
         THEN authority_on_transfer_request(self, relay,
                  Delivered(c, self, relay.order_id, TRANSFER_REQUEST))
         ELSE c
    ELSE IF self \in Clients
         THEN handle_confirmation_order(self, relay.inner_payload.confirmation_order,
                  Delivered(c, self, relay.order_id, CONFIRMATION_REQUEST))
         ELSE c

\* the local-delivery step: which callback runs, if any
deliver(self, relay, c) ==
    IF relay.inner_message_type = TRANSFER_RESPONSE
    THEN IF relay.original_sender_id = self /\ self \in Clients
         THEN handle_transfer_response(self, relay.inner_payload,
                  Delivered(c, self, relay.order_id, TRANSFER_RESPONSE))
         ELSE c
    ELSE IF relay.inner_message_type = TRANSFER_REQUEST
    THEN IF self \in Authorities
         THEN authority_on_transfer_request(self, relay,
                  Delivered(c, self, relay.order_id, TRANSFER_REQUEST))
         ELSE c
    ELSE IF self \in Clients
            /\ relay.inner_payload.confirmation_order.transfer_order.recipient = self
         THEN handle_confirmation_order(self, relay.inner_payload.confirmation_order,
                  Delivered(c, self, relay.order_id, CONFIRMATION_REQUEST))
         ELSE c

reflood(self, relay, c) ==
    IF relay.ttl > 1
    THEN [c EXCEPT !.net = relay_to_neighbors(@, self, c.st, next_relay(self, relay)),
                   !.st = after_relay(@, next_relay(self, relay))]
    ELSE c

\* A from_payload that misses a key raises KeyError, and the exception ends
\* the handler: for the bundle itself before anything is done, for the inner
\* payload in the local-delivery step, after the order id was recorded.
\* _process_message logs the exception.
handle_mesh_relay(self, message, c) ==
    IF "order_id" \notin DOMAIN message.payload THEN c
    ELSE LET relay == message.payload
             Raises ==
                 \/ /\ relay.inner_message_type = TRANSFER_RESPONSE
                    /\ relay.original_sender_id = self /\ self \in Clients
                    /\ "transfer_order" \notin DOMAIN relay.inner_payload
                 \/ /\ relay.inner_message_type = TRANSFER_REQUEST
                    /\ self \in Authorities
                    /\ "transfer_order" \notin DOMAIN relay.inner_payload
                 \/ /\ relay.inner_message_type = CONFIRMATION_REQUEST
                    /\ self \in Clients
                    /\ "confirmation_order" \notin DOMAIN relay.inner_payload
         IN IF IsDuplicate(c.st, self, relay) THEN c
            ELSE Result({ IF Raises THEN c1
                          ELSE Result({ reflood(self, relay, c2) :
                                          c2 \in {deliver(self, relay, c1)} }) :
                            c1 \in {[c EXCEPT !.st.seen_order_ids =
                                                @ \cup {relay.order_id}]} })

(***************************************************************************)
(* Client._retry_loop, the body of the for loop over the snapshot          *)
(***************************************************************************)
\* a faulty retry step that counts the attempt only on its first retry
retry_resubmit_step_count_once(self, c) ==
    LET tx_id == Head(c.st.retry_todo)
        btx == c.st.btx[tx_id]
        relay_msg == build_relay_message(self, TRANSFER_REQUEST,
                         TransferRequestMessage(btx.order), tx_id,
                         NoneStr, NoneStr, NoneInt, NoneSeq)
    IN IF btx.status # BUFFERED
       THEN [c EXCEPT !.st.retry_todo = Tail(@)]
       ELSE [c EXCEPT
               !.st.btx[tx_id].retry_count = 1,
               !.net = relay_to_neighbors(@, self, c.st, relay_msg),
               !.st.retry_pc = "check"]

\* from the status test to the return of _relay_to_neighbors
retry_resubmit_step(self, c) ==
    LET tx_id == Head(c.st.retry_todo)
        btx == c.st.btx[tx_id]
        relay_msg == build_relay_message(self, TRANSFER_REQUEST,
                         TransferRequestMessage(btx.order), tx_id,
                         NoneStr, NoneStr, NoneInt, NoneSeq)
    IN IF btx.status # BUFFERED
       THEN [c EXCEPT !.st.retry_todo = Tail(@)]
       ELSE [c EXCEPT
               !.st.btx[tx_id].retry_count = @ + 1,
               !.st.seen_order_ids = (@ \ {tx_id}) \cup {tx_id},
               !.net = relay_to_neighbors(@, self, c.st, relay_msg),
               !.st.neighbors = after_relay(c.st, relay_msg).neighbors,
               !.st.p2p_connections = after_relay(c.st, relay_msg).p2p_connections,
               !.st.retry_pc = "check"]

\* the quorum re-check after the re-submit
retry_recheck_step(self, c) ==
    \* _finalize_buffered_transaction of the entry bt
    LET finalize_buffered_transaction(bt, cx) ==
            broadcast_confirmation(self, [cx EXCEPT !.st.pending_transfer = bt.order])
    IN
    LET tx_id == Head(c.st.retry_todo)
        btx == c.st.btx[tx_id]
        c1 == [c EXCEPT !.st.retry_todo = Tail(@), !.st.retry_pc = "loop"]
    IN IF ~btx.is_relay /\ check_quorum(c.st, tx_id)
       THEN finalize_buffered_transaction(btx,
                [c1 EXCEPT !.st.btx[tx_id].status = FINALIZED,
                           !.st.retry_completed = @ \cup {tx_id}])
       ELSE c1

(***************************************************************************)
(* Actions                                                                 *)
(***************************************************************************)
\* the handler has returned: its result r becomes the new state
Commit(self, c) ==
    \E r \in {c} :
        /\ node' = [node EXCEPT ![self] = r.st]
        /\ inbox' = r.net
        /\ emitted' = r.em
        /\ delivered' = r.dl

Here(self) == Ctx(node[self], inbox, emitted, delivered)

\* Client.start_fastpay_services
start_fastpay_services(self) ==
    /\ self \in Clients
    /\ ~node[self].running
    /\ node' = [node EXCEPT ![self].running = TRUE,
                            ![self].quorum_threshold = calculate_quorum(node[self])]
    /\ UNCHANGED <<inbox, DEFAULT_RELAY_TTL, emitted, delivered, next_order_id, now, thread, last_beacon, controller>>

\* Client.transfer
transfer(self, recipient, amount) ==
    /\ next_order_id <= MaxOrders
    /\ LET order == TransferOrder(next_order_id, self, recipient, amount,
                                  node[self].sequence_number)
           relay_msg == build_relay_message(self, TRANSFER_REQUEST,
                            TransferRequestMessage(order), order.order_id,
                            NoneStr, NoneStr, NoneInt, NoneSeq)
           st1 == [node[self] EXCEPT !.pending_transfer = order,
                                     !.seen_order_ids = @ \cup {order.order_id}]
           net1 == relay_to_neighbors(inbox, self, st1, relay_msg)
           st2 == [after_relay(st1, relay_msg) EXCEPT
                     !.btx = [o \in DOMAIN @ \cup {order.order_id} |->
                                 IF o = order.order_id
                                 THEN BufferedTransaction(order, st1.quorum_threshold)
                                 ELSE @[o]],
                     !.transaction_queue = @ \cup {order.order_id}]
       IN Commit(self, Ctx(st2, net1, emitted, delivered))
    /\ next_order_id' = next_order_id + 1
    /\ UNCHANGED <<DEFAULT_RELAY_TTL, now, thread, last_beacon, controller>>

\* the public call Client.broadcast_confirmation
call_broadcast_confirmation(self) ==
    /\ self \in Clients
    /\ node[self].pending_transfer # NoOrder
    /\ Commit(self, broadcast_confirmation(self, Here(self)))
    /\ UNCHANGED <<DEFAULT_RELAY_TTL, next_order_id, now, thread, last_beacon, controller>>

\* _message_handler_loop: receive one message and process it
process_message(self) ==
    /\ node[self].running
    /\ inbox[self] # <<>>
    /\ Commit(self, handle_mesh_relay(self, Head(inbox[self]),
                        Ctx(node[self], [inbox EXCEPT ![self] = Tail(@)],
                            emitted, delivered)))
    /\ UNCHANGED <<DEFAULT_RELAY_TTL, next_order_id, now, thread, last_beacon, controller>>

\* _retry_loop: wake up, take the snapshot of a non-empty queue
retry_begin(self) ==
    \* list(self.transaction_queue.items()): dict order is insertion order, and
    \* order ids are handed out in increasing order
    LET QueueSnapshot(q) ==
            CHOOSE s \in [1..Cardinality(q) -> q] : \A i, j \in 1..Cardinality(q) : i < j => s[i] < s[j]
    IN
    /\ self \in Clients
    /\ node[self].running
    /\ node[self].retry_pc = "sleep"
    /\ node[self].transaction_queue # {}
    /\ \A o \in node[self].transaction_queue : node[self].btx[o].retry_count < MaxRetry
    /\ node' = [node EXCEPT ![self].retry_pc = "loop",
                            ![self].retry_todo = QueueSnapshot(node[self].transaction_queue),
                            ![self].retry_completed = {}]
    /\ UNCHANGED <<inbox, DEFAULT_RELAY_TTL, emitted, delivered, next_order_id, now, thread, last_beacon, controller>>

retry_resubmit(self) ==
    /\ node[self].retry_pc = "loop"
    /\ node[self].retry_todo # <<>>
    /\ Commit(self, retry_resubmit_step(self, Here(self)))
    /\ UNCHANGED <<DEFAULT_RELAY_TTL, next_order_id, now, thread, last_beacon, controller>>

retry_recheck(self) ==
    /\ node[self].retry_pc = "check"
    /\ Commit(self, retry_recheck_step(self, Here(self)))
    /\ UNCHANGED <<DEFAULT_RELAY_TTL, next_order_id, now, thread, last_beacon, controller>>

\* after the for loop: pop the completed ids, sleep again
retry_end(self) ==
    /\ node[self].retry_pc = "loop"
    /\ node[self].retry_todo = <<>>
    /\ node' = [node EXCEPT ![self].retry_pc = "sleep",
                            ![self].transaction_queue = @ \ node[self].retry_completed]
    /\ UNCHANGED <<inbox, DEFAULT_RELAY_TTL, emitted, delivered, next_order_id, now, thread, last_beacon, controller>>

\* MeshMixin.add_neighbor: the discovery service has verified a beacon of
\* node_id
add_neighbor(self, node_id) ==
    /\ node' = [node EXCEPT ![self].neighbors = @ \cup {node_id},
                            ![self].p2p_connections = WithPeer(@, node_id, now)]
    /\ UNCHANGED <<inbox, DEFAULT_RELAY_TTL, emitted, delivered, next_order_id, now, thread, last_beacon, controller>>

(***************************************************************************)
(* Construction                                                            *)
(***************************************************************************)
\* the fields after __init__, with the committee and the neighbour table
\* the host script assigned
NewClient(committee, neighbors) ==
    [running |-> FALSE,
     committee |-> committee,
     quorum_threshold |-> 0,
     neighbors |-> neighbors,
     p2p_connections |-> [q \in neighbors |-> 0],
     send_failing |-> {},
     seen_order_ids |-> {},
     sequence_number |-> 1,
     pending_transfer |-> NoOrder,
     sent_certificates |-> <<>>,
     balance |-> 0,
     transaction_queue |-> {},
     btx |-> [o \in {} |-> BufferedTransaction(NoOrder, 0)],
     retry_pc |-> "sleep",
     retry_todo |-> <<>>,
     retry_completed |-> {}]

\* an authority: the mesh fields of AuthorityState and one account per sender
NewAuthority(neighbors, running) ==
    [running |-> running,
     neighbors |-> neighbors,
     p2p_connections |-> [q \in neighbors |-> 0],
     send_failing |-> {},
     seen_order_ids |-> {},
     accounts |-> [s \in {"C"} |-> [sequence_number |-> 1, pending_confirmation |-> 0]]]

\* a node nobody can reach and that runs no worker
Absent(n) == IF n \in Clients THEN NewClient({}, {}) ELSE NewAuthority({}, FALSE)

NoPeer == ""

\* a worker of DiscoveryNode at the head of its loop: the beacon worker is
\* due at once, the listen worker waits in recvfrom
NewThread(w) ==
    [pc |-> IF w = "beacon" THEN "sleep" ELSE IF w = "listen" THEN "recvfrom" ELSE "loop",
     due |-> 0, t |-> 0, broken |-> FALSE, stale |-> {}, cur |-> NoPeer,
     snapshot |-> {}, peer |-> NoPeer, known |-> FALSE, probe |-> "none",
     order |-> NoOrder, relay |-> NoOrder]

\* a node on which start_fastpay_services has already returned True
Started(st) == [st EXCEPT !.running = TRUE, !.quorum_threshold = calculate_quorum(st)]

\* QoSManager() and FallbackProfile(miss_threshold, heartbeat_interval) just
\* constructed; qdisc is the root qdisc of each managed node's wlan0
\* interface, returned the last method call and its result
NewController(miss_threshold, heartbeat_interval) ==
    [installed_nodes |-> {},
     miss_threshold |-> miss_threshold,
     heartbeat_interval |-> heartbeat_interval,
     last_heartbeat |-> now,
     active |-> FALSE,
     managed_nodes |-> {},
     qdisc |-> [n \in Stations |-> "default"],
     returned |-> [op |-> "__init__", node |-> NoneStr, value |-> FALSE]]

InitCommon ==
    /\ inbox = [n \in Nodes |-> <<>>]
    /\ emitted = <<>>
    /\ delivered = [k \in {} |-> 0]
    /\ next_order_id = 1
    /\ now = 0
    /\ thread = [w \in {"receive", "retry", "beacon", "listen"} |-> NewThread(w)]
    /\ last_beacon = [q \in {} |-> 0]
    /\ controller = NewController(DEFAULT_MISS_THRESHOLD, 1)

NetEmpty == \A n \in Nodes : inbox[n] = <<>>

\* nothing is left to do for client c: the wire is empty, the retry worker
\* sleeps, and every queued transaction has used its retries
Settled(c) ==
    /\ next_order_id > 1
    /\ NetEmpty
    /\ node[c].retry_pc = "sleep"
    /\ \A o \in node[c].transaction_queue : node[c].btx[o].retry_count = MaxRetry

(***************************************************************************)
(* S1: committee {A1..A4}, client C, recipient R, all mutual neighbours.   *)
(* The receive workers are scheduled in a fixed priority order; the retry  *)
(* worker of C runs at any moment.                                         *)
(***************************************************************************)
FirstBusy(n) ==
    LET ReceiveOrder == <<"C", "R", "N1", "N2", "A1", "A2", "A3", "A4">>
        Rank(x) == CHOOSE i \in 1..Len(ReceiveOrder) : ReceiveOrder[i] = x
    IN \A m \in Nodes : Rank(m) < Rank(n) => inbox[m] = <<>>

InitS1 ==
    LET S1Nodes == {"C", "R"} \cup Authorities
    IN
    /\ InitCommon
    /\ DEFAULT_RELAY_TTL = 8
    /\ node = [n \in Nodes |->
                 IF n \in {"C", "R"} THEN Started(NewClient(Authorities, S1Nodes \ {n}))
                 ELSE IF n \in Authorities THEN NewAuthority(S1Nodes \ {n}, TRUE)
                 ELSE Absent(n)]

SpecS1 ==
    /\ InitS1
    /\ [][ \/ /\ next_order_id = 1
              /\ transfer("C", "R", 10)
           \/ \E n \in Nodes : FirstBusy(n) /\ process_message(n)
           \/ retry_begin("C")
           \/ retry_resubmit("C")
           \/ retry_recheck("C")
           \/ retry_end("C") ]_vars

\* C1 (as claimed): in S1 a single C.transfer(R, token, 10) ends with
\* pending_transfer = None, sequence_number = 2, C.balance = -10 and
\* R.balance = 10 once the flood has drained and the retries are over.
C1_DirectTransferCompletes ==
    Settled("C") =>
        /\ node["C"].pending_transfer = NoOrder
        /\ node["C"].sequence_number = 2
        /\ node["C"].balance = -10
        /\ node["R"].balance = 10

(***************************************************************************)
(* S2: the chain C - N1 - N2 - {A1, A2, A3}; A4 is out of reach            *)
(***************************************************************************)
InitS2 ==
    LET S2Neighbors(n) ==
            IF n = "C" THEN {"N1"}
            ELSE IF n = "N1" THEN {"C", "N2"}
            ELSE IF n = "N2" THEN {"N1", "A1", "A2", "A3"}
            ELSE IF n \in {"A1", "A2", "A3"} THEN {"N2"}
            ELSE {}
    IN
    /\ InitCommon
    /\ DEFAULT_RELAY_TTL \in {2, 4, 8}
    /\ node = [n \in Nodes |->
                 IF n \in {"C", "N1", "N2"} THEN Started(NewClient(Authorities, S2Neighbors(n)))
                 ELSE IF n \in {"A1", "A2", "A3"} THEN NewAuthority(S2Neighbors(n), TRUE)
                 ELSE Absent(n)]

SpecS2 ==
    /\ InitS2
    /\ [][ \/ /\ next_order_id = 1
              /\ transfer("C", "R", 10)
           \/ \E n \in Nodes : process_message(n)
           \/ retry_begin("C")
           \/ retry_resubmit("C")
           \/ retry_recheck("C")
           \/ retry_end("C") ]_vars

\* the order of transfer number k has reached quorum at client c: it was
\* finalized and its confirmation was emitted
ReachedQuorum(c, k) ==
    /\ k \in DOMAIN node[c].btx
    /\ node[c].btx[k].status = FINALIZED
    /\ \E i \in 1..Len(emitted) : emitted[i].order_id = k

\* C6 (as claimed): in the chain with DEFAULT_RELAY_TTL >= 4 and no loss the
\* transfer of C reaches quorum at C once the floods have drained.
C6_MultiHopQuorum ==
    (DEFAULT_RELAY_TTL >= 4 /\ Settled("C")) => ReachedQuorum("C", 1)

\* C25 (as claimed): in the chain of S2 with DEFAULT_RELAY_TTL >= 4, N2 and
\* N1 have relayed the TRANSFER_REQUEST of order 1 when an authority answers
\* it; they do not discard the first TRANSFER_RESPONSE for order 1 but
\* forward it, so once the floods have drained C, the addressee, has been
\* handed at least one TRANSFER_RESPONSE.
C25_NoCrossTypeBlocking ==
    (/\ DEFAULT_RELAY_TTL >= 4
     /\ NetEmpty
     /\ \E a \in Authorities : Count(delivered, <<a, 1, TRANSFER_REQUEST>>) >= 1)
    => Count(delivered, <<"C", 1, TRANSFER_RESPONSE>>) >= 1

\* C7: a bundle submitted with TTL t is never received more than t hops from
\* the node that submitted it; in the chain with DEFAULT_RELAY_TTL = 2 no
\* authority ever receives the TRANSFER_REQUEST and the order stays BUFFERED
\* in the queue, through every retry.
C7_TtlBoundsReach ==
    LET S2Distance(a, b) ==
            \* position along the chain and the hop distance between two chain nodes
            LET S2Position(n) ==
                    IF n = "C" THEN 0 ELSE IF n = "N1" THEN 1 ELSE IF n = "N2" THEN 2 ELSE 3
            IN
            IF a = b THEN 0
            ELSE IF S2Position(a) = 3 /\ S2Position(b) = 3 THEN 2
            ELSE IF S2Position(a) > S2Position(b) THEN S2Position(a) - S2Position(b)
            ELSE S2Position(b) - S2Position(a)
    IN
    /\ \A d \in Nodes : \A i \in 1..Len(inbox[d]) :
          S2Distance(inbox[d][i].payload.hop_path[1], d) <= DEFAULT_RELAY_TTL
    /\ DEFAULT_RELAY_TTL = 2 =>
          /\ \A a \in Authorities :
                /\ \A i \in 1..Len(inbox[a]) :
                      inbox[a][i].payload.inner_message_type # TRANSFER_REQUEST
                /\ \A o \in OrderIds : Count(delivered, <<a, o, TRANSFER_REQUEST>>) = 0
          /\ \A o \in DOMAIN node["C"].btx :
                /\ node["C"].btx[o].status = BUFFERED
                /\ o \in node["C"].transaction_queue
          /\ emitted = <<>>

\* TTL 2: the request went as far as N2, every retry has been spent, and the
\* order is still buffered
C7_Witness ==
    /\ DEFAULT_RELAY_TTL = 2
    /\ Settled("C")
    /\ 1 \in node["N2"].seen_order_ids
    /\ 1 \in node["C"].transaction_queue
    /\ node["C"].btx[1].retry_count = MaxRetry
    /\ node["C"].btx[1].status = BUFFERED

(***************************************************************************)
(* Flooding on cyclic topologies: the ring C - N1 - N2 - A1 - C with the   *)
(* chord N1 - A1 and R hanging off N2, and a triangle in which C's table   *)
(* also lists C itself.  The committee is {A1}, so quorum is 1.            *)
(***************************************************************************)
FloodNode(n, nbrs) ==
    IF nbrs = {} THEN Absent(n)
    ELSE IF n \in Clients THEN Started(NewClient({"A1"}, nbrs))
    ELSE NewAuthority(nbrs, TRUE)

InitFlood ==
    /\ InitCommon
    /\ DEFAULT_RELAY_TTL \in {1, 2, 3}
    /\ LET RingNeighbors(n) ==
               IF n = "C" THEN {"N1", "A1"}
               ELSE IF n = "N1" THEN {"C", "N2", "A1"}
               ELSE IF n = "N2" THEN {"N1", "A1", "R"}
               ELSE IF n = "A1" THEN {"C", "N1", "N2"}
               ELSE IF n = "R" THEN {"N2"}
               ELSE {}
           TriangleNeighbors(n) ==
               IF n = "C" THEN {"C", "N1", "A1"}
               ELSE IF n = "N1" THEN {"C", "A1", "R"}
               ELSE IF n = "A1" THEN {"C", "N1"}
               ELSE IF n = "R" THEN {"N1"}
               ELSE {}
       IN \/ node = [n \in Nodes |-> FloodNode(n, RingNeighbors(n))]
          \/ node = [n \in Nodes |-> FloodNode(n, TriangleNeighbors(n))]

NextFlood ==
    \/ /\ next_order_id = 1
       /\ transfer("C", "R", 10)
    \/ \E n \in Nodes : process_message(n)
    \/ retry_begin("C")
    \/ retry_resubmit("C")
    \/ retry_recheck("C")
    \/ retry_end("C")

SpecFlood == InitFlood /\ [][NextFlood]_vars

\* the receive workers keep polling: a queued message is eventually processed
FairSpecFlood ==
    /\ InitFlood
    /\ [][NextFlood]_vars
    /\ \A n \in Nodes : WF_vars(process_message(n))

\* C8: every bundle on the wire, whether put there by a submit, a retry or a
\* re-flood, has ttl <= DEFAULT_RELAY_TTL and a hop_path without repetition.
C8_WireBundlesWellFormed ==
    LET NoDuplicates(s) == \A i, j \in 1..Len(s) : s[i] = s[j] => i = j
    IN
    \A d \in Nodes : \A i \in 1..Len(inbox[d]) :
        /\ inbox[d][i].payload.ttl <= DEFAULT_RELAY_TTL
        /\ NoDuplicates(inbox[d][i].payload.hop_path)

\* a bundle re-flooded two hops from its submitter is on the wire while the
\* retry worker has already resubmitted its order
C8_Witness ==
    /\ node["C"].retry_pc # "sleep"
    /\ \E d \in Nodes : \E i \in 1..Len(inbox[d]) :
          /\ Len(inbox[d][i].payload.hop_path) = 3
          /\ inbox[d][i].payload.ttl = DEFAULT_RELAY_TTL - 2

\* C9: split horizon: the receiver of a bundle is never in the bundle's
\* hop_path, which always holds the sending node (as its last entry) and the
\* submitting node (as its first).
C9_SplitHorizon ==
    \A d \in Nodes : \A i \in 1..Len(inbox[d]) :
        /\ ~InPath(d, inbox[d][i].payload.hop_path)
        /\ inbox[d][i].payload.hop_path[Len(inbox[d][i].payload.hop_path)]
              = inbox[d][i].sender
        /\ inbox[d][i].sender # d
        /\ inbox[d][i].payload.hop_path[1] # d

\* N1 has re-flooded a bundle that came from C to a third node, while C is
\* also N1's neighbour, and C, which lists itself as a neighbour, has flooded
C9_Witness ==
    /\ "C" \in node["C"].neighbors
    /\ \E d \in Nodes \ {"C", "N1"} : \E i \in 1..Len(inbox[d]) :
          /\ inbox[d][i].sender = "N1"
          /\ inbox[d][i].payload.hop_path = <<"C", "N1">>

\* C10: a bundle on the wire after k hops carries ttl = DEFAULT_RELAY_TTL -
\* k + 1 >= 1, so it makes at most DEFAULT_RELAY_TTL hops; and, submits and
\* retries being finitely many, from some point on no MESH_RELAY message is
\* in flight.
C10_FloodTerminates ==
    /\ [](\A d \in Nodes : \A i \in 1..Len(inbox[d]) :
            /\ inbox[d][i].payload.ttl >= 1
            /\ Len(inbox[d][i].payload.hop_path) + inbox[d][i].payload.ttl
                  = DEFAULT_RELAY_TTL + 1)
    /\ <>[]NetEmpty

\* on the ring, after a bundle made the full DEFAULT_RELAY_TTL = 3 hops and
\* the retries are spent, the network is empty again
C10_Witness ==
    /\ DEFAULT_RELAY_TTL = 3
    /\ "N2" \in node["N1"].neighbors
    /\ Settled("C")
    /\ \A n \in {"N1", "N2", "A1", "R"} : 1 \in node[n].seen_order_ids

(***************************************************************************)
(* Alternative paths: A2 and A3 are down.  C's table holds A1 and A4; A1   *)
(* also lists the relays N1, N2 and R, each of which lists C, while C      *)
(* does not list them.                                                     *)
(***************************************************************************)
InitDup ==
    LET DupNeighbors(n) ==
            IF n = "C" THEN {"A1", "A4"}
            ELSE IF n = "A1" THEN {"C", "N1", "N2", "R"}
            ELSE IF n = "A4" THEN {"C"}
            ELSE IF n \in {"N1", "N2", "R"} THEN {"C"}
            ELSE {}
    IN
    /\ InitCommon
    /\ DEFAULT_RELAY_TTL = 8
    /\ node = [n \in Nodes |->
                 IF n \in Clients THEN Started(NewClient(Authorities, DupNeighbors(n)))
                 ELSE IF n \in {"A1", "A4"} THEN NewAuthority(DupNeighbors(n), TRUE)
                 ELSE Absent(n)]

SpecDup ==
    /\ InitDup
    /\ [][ \/ /\ next_order_id = 1
              /\ transfer("C", "R", 10)
           \/ \E n \in Nodes : process_message(n)
           \/ retry_begin("C")
           \/ retry_resubmit("C")
           \/ retry_recheck("C")
           \/ retry_end("C") ]_vars

\* C2 (as claimed): at every node and for every order_id the delivery
\* callback runs at most once per inner message type, except that
\* TRANSFER_RESPONSE bundles are delivered to their original sender at most
\* |committee| times.
C2_DeliverAtMostOnce ==
    \A n \in Nodes : \A o \in OrderIds :
        /\ Count(delivered, <<n, o, TRANSFER_REQUEST>>) <= 1
        /\ Count(delivered, <<n, o, CONFIRMATION_REQUEST>>) <= 1
        /\ n \in Clients =>
              Count(delivered, <<n, o, TRANSFER_RESPONSE>>) <= Cardinality(node[n].committee)

\* C3 (as claimed): an order is finalized and its confirmation emitted only
\* with responses of at least quorum_threshold distinct authorities; with
\* two of four authorities responding the order stays BUFFERED.
C3_QuorumCountsDistinct ==
    /\ \A i \in 1..Len(emitted) :
          Cardinality({ emitted[i].authority_signatures[j] :
                          j \in 1..Len(emitted[i].authority_signatures) })
              >= node["C"].quorum_threshold
    /\ \A o \in DOMAIN node["C"].btx :
          /\ node["C"].btx[o].status = BUFFERED
          /\ Cardinality(node["C"].btx[o].signatures_received) <= 2

(***************************************************************************)
(* The public interface: C is constructed with its committee but not yet   *)
(* started; the host calls start_fastpay_services, transfer and            *)
(* broadcast_confirmation in any order.  A1 and A4 are C's neighbours.     *)
(***************************************************************************)
InitApi ==
    /\ InitCommon
    /\ DEFAULT_RELAY_TTL = 8
    /\ node = [n \in Nodes |->
                 IF n = "C" THEN NewClient(Authorities, {"A1", "A4"})
                 ELSE IF n \in {"A1", "A4"} THEN NewAuthority({"C"}, TRUE)
                 ELSE Absent(n)]

SpecApi ==
    /\ InitApi
    /\ [][ \/ start_fastpay_services("C")
           \/ transfer("C", "R", 10)
           \/ call_broadcast_confirmation("C")
           \/ \E n \in Nodes : process_message(n)
           \/ retry_begin("C")
           \/ retry_resubmit("C")
           \/ retry_recheck("C")
           \/ retry_end("C") ]_vars

(***************************************************************************)
(* S4: A1, A2 and A4 are C's direct neighbours, A3 is down; C is started   *)
(* and issues two orders.  The receive workers are scheduled in the fixed  *)
(* priority order of S1; the host's calls and the retry worker of C run at *)
(* any moment.                                                             *)
(***************************************************************************)
InitS4 ==
    LET S4Live == {"A1", "A2", "A4"}
    IN
    /\ InitCommon
    /\ DEFAULT_RELAY_TTL = 8
    /\ node = [n \in Nodes |->
                 IF n = "C" THEN Started(NewClient(Authorities, S4Live))
                 ELSE IF n \in S4Live THEN NewAuthority({"C"}, TRUE)
                 ELSE Absent(n)]

SpecS4 ==
    /\ InitS4
    /\ [][ \/ transfer("C", "R", 10)
           \/ \E n \in Nodes : FirstBusy(n) /\ process_message(n)
           \/ retry_begin("C")
           \/ retry_resubmit("C")
           \/ retry_recheck("C")
           \/ retry_end("C") ]_vars

\* C4 (as claimed): every ConfirmationOrder the client emits carries at least
\* floor(2*|committee|/3) + 1 authority signatures.
C4_ConfirmationHasQuorum ==
    \A i \in 1..Len(emitted) :
        Len(emitted[i].authority_signatures) >= calculate_quorum(node["C"])

\* C5 (as claimed): of two orders issued with the same sequence_number at
\* most one is finalized with a confirmation emitted.
C5_AtMostOneReachesQuorum ==
    \A o1, o2 \in DOMAIN node["C"].btx :
        (/\ o1 # o2
         /\ node["C"].btx[o1].order.sequence_number
               = node["C"].btx[o2].order.sequence_number)
        => ~(ReachedQuorum("C", o1) /\ ReachedQuorum("C", o2))


\* authority a answered order o with success = true: acceptance sets the
\* lock of the sender's account, and the lock is not released in these runs
Accepted(a, o) == node[a].accounts["C"].pending_confirmation = o

\* C13 (as claimed): a TRANSFER_RESPONSE with success = false is not credited
\* as a signature: every signature recorded for a buffered order and every
\* signature of an emitted confirmation comes from an authority that
\* accepted the order, and an order leaves BUFFERED only when the accepting
\* authorities alone make a quorum.
C13_RejectionNotCredited ==
    /\ \A o \in DOMAIN node["C"].btx :
          /\ \A a \in node["C"].btx[o].signatures_received : Accepted(a, o)
          /\ node["C"].btx[o].status # BUFFERED =>
                Cardinality({a \in Authorities : Accepted(a, o)}) >= node["C"].quorum_threshold
    /\ \A i \in 1..Len(emitted) : \A j \in 1..Len(emitted[i].authority_signatures) :
          Accepted(emitted[i].authority_signatures[j], emitted[i].order_id)

\* C14 (as claimed): once a quorum of rejections with one and the same
\* reason has arrived at C for a buffered order, the order is REJECTED and
\* has left the retry queue.
C14_RejectionQuorumRejects ==
    LET REJECTED == "rejected"
    IN
    LET Rejected(a, o) == Count(delivered, <<a, o, TRANSFER_REQUEST>>) = 1 /\ ~Accepted(a, o)
        RejectionReason(a, o) == authority_verdict(node[a].accounts["C"], node["C"].btx[o].order)
        Rejecters(o, reason) == {a \in Authorities : Rejected(a, o) /\ RejectionReason(a, o) = reason}
    IN
    \A o \in DOMAIN node["C"].btx :
        (/\ NetEmpty
         /\ \E reason \in {"SEQUENCE_MISMATCH", "CONFLICTING_LOCK", "INSUFFICIENT_FUNDS"} :
               Cardinality(Rejecters(o, reason)) >= node["C"].quorum_threshold)
        => /\ node["C"].btx[o].status = REJECTED
           /\ o \notin node["C"].transaction_queue

(***************************************************************************)
(* Partition and repair: C - N1, with the authority A1 out of reach until  *)
(* N1 discovers it.  The link comes up while the retry worker of C sleeps  *)
(* and a retry is still left, so a whole retry attempt follows the repair. *)
(***************************************************************************)
InitPartition ==
    /\ InitCommon
    /\ DEFAULT_RELAY_TTL \in {2, 8}
    /\ LET PartitionNeighbors(n) ==
               IF n = "C" THEN {"N1"}
               ELSE IF n = "N1" THEN {"C"}
               ELSE IF n = "A1" THEN {"N1"}
               ELSE {}
       IN node = [n \in Nodes |-> FloodNode(n, PartitionNeighbors(n))]

SpecPartition ==
    /\ InitPartition
    /\ [][ \/ /\ next_order_id = 1
              /\ transfer("C", "R", 10)
           \/ \E n \in Nodes : process_message(n)
           \/ /\ 1 \in node["C"].transaction_queue
              /\ node["C"].btx[1].retry_count < MaxRetry
              /\ node["C"].retry_pc = "sleep"
              /\ "A1" \notin node["N1"].neighbors
              /\ add_neighbor("N1", "A1")
           \/ retry_begin("C")
           \/ retry_resubmit("C")
           \/ retry_recheck("C")
           \/ retry_end("C") ]_vars

\* C11 (as claimed): once the path C - N1 - A1 exists (2 hops, within
\* DEFAULT_RELAY_TTL) and a retry attempt of the buffered order has been
\* flooded over it and has drained, A1 has received the TRANSFER_REQUEST,
\* even though N1 relayed an earlier attempt.
C11_RetryReachesRepairedPath ==
    (Settled("C") /\ "A1" \in node["N1"].neighbors) =>
        Count(delivered, <<"A1", 1, TRANSFER_REQUEST>>) >= 1

(***************************************************************************)
(* S3: the request of C is injected at N1 and at N2 at once; each of the   *)
(* authorities A1 and A4 is reached over two paths, one through a relay    *)
(* and one through the other authority.                                    *)
(***************************************************************************)
S3Authorities == {"A1", "A4"}

InitS3 ==
    LET S3Neighbors(n) ==
            IF n = "C" THEN {"N1", "N2"}
            ELSE IF n = "N1" THEN {"C", "A1"}
            ELSE IF n = "N2" THEN {"C", "A4"}
            ELSE IF n = "A1" THEN {"N1", "A4"}
            ELSE IF n = "A4" THEN {"N2", "A1"}
            ELSE {}
    IN
    /\ InitCommon
    /\ DEFAULT_RELAY_TTL \in {4, 8}
    /\ node = [n \in Nodes |->
                 IF S3Neighbors(n) = {} THEN Absent(n)
                 ELSE IF n \in Clients THEN Started(NewClient(S3Authorities, S3Neighbors(n)))
                 ELSE NewAuthority(S3Neighbors(n), TRUE)]

SpecS3 ==
    /\ InitS3
    /\ [][ \/ /\ next_order_id = 1
              /\ transfer("C", "R", 10)
           \/ \E n \in Nodes : process_message(n)
           \/ retry_begin("C")
           \/ retry_resubmit("C")
           \/ retry_recheck("C")
           \/ retry_end("C") ]_vars

\* C12 (as claimed): the TRANSFER_REQUEST of order 1 reaches A1 and A4 over
\* two paths each; whatever the order of arrival and the number of copies,
\* once the flood has drained each authority has run on_transfer_request
\* exactly once for the order.
C12_RequestProcessedExactlyOnce ==
    /\ \A a \in S3Authorities : \A o \in OrderIds :
          Count(delivered, <<a, o, TRANSFER_REQUEST>>) <= 1
    /\ (NetEmpty /\ next_order_id > 1) =>
          \A a \in S3Authorities : Count(delivered, <<a, 1, TRANSFER_REQUEST>>) = 1

(***************************************************************************)
(* The discovery service of one node, statement by statement.  The beacon  *)
(* worker and the listen worker share state.neighbors and p2p_connections  *)
(* and take no lock, so their statements interleave.  Sleeping and waiting *)
(* take time, statements take none.                                        *)
(***************************************************************************)
MaxTime == 8

DiscoveryNode == "C"

\* the head of a worker loop: while self._running
LoopHead(first) == IF node[DiscoveryNode].running THEN first ELSE "done"

\* _discovery_broadcast_loop: time.sleep is over; the loop test, and
\* get_neighbors reads time.time() and starts to iterate p2p_connections
discovery_broadcast_wake ==
    /\ thread["beacon"].pc = "sleep"
    /\ thread["beacon"].due <= now
    /\ thread' = [thread EXCEPT !["beacon"].pc = LoopHead("iter"),
                                !["beacon"].t = now,
                                !["beacon"].broken = FALSE]
    /\ UNCHANGED <<node, inbox, DEFAULT_RELAY_TTL, emitted, delivered, next_order_id, now, last_beacon, controller>>

\* get_neighbors: the list comprehension ends; it raises RuntimeError when
\* the size of p2p_connections changed while it iterated
get_neighbors_iterate ==
    /\ thread["beacon"].pc = "iter"
    /\ thread' = [thread EXCEPT
                    !["beacon"].pc = IF thread["beacon"].broken THEN "raised" ELSE "prune",
                    !["beacon"].stale = IF thread["beacon"].broken THEN {}
                                        ELSE stale_ids(node[DiscoveryNode], thread["beacon"].t)]
    /\ UNCHANGED <<node, inbox, DEFAULT_RELAY_TTL, emitted, delivered, next_order_id, now, last_beacon, controller>>

\* remove_neighbor(nid), first statement: self.state.neighbors.pop(nid, None)
get_neighbors_pop_neighbors ==
    /\ thread["beacon"].pc = "prune"
    /\ \E nid \in thread["beacon"].stale :
          /\ node' = [node EXCEPT ![DiscoveryNode].neighbors = @ \ {nid}]
          /\ thread' = [thread EXCEPT !["beacon"].pc = "pop", !["beacon"].cur = nid]
    /\ UNCHANGED <<inbox, DEFAULT_RELAY_TTL, emitted, delivered, next_order_id, now, last_beacon, controller>>

\* remove_neighbor(nid), second statement: self.p2p_connections.pop(nid, None)
get_neighbors_pop_p2p ==
    /\ thread["beacon"].pc = "pop"
    /\ node' = [node EXCEPT ![DiscoveryNode].p2p_connections =
                                 WithoutPeer(@, thread["beacon"].cur)]
    /\ thread' = [thread EXCEPT !["beacon"].pc = "prune",
                                !["beacon"].stale = @ \ {thread["beacon"].cur},
                                !["beacon"].cur = NoPeer]
    /\ UNCHANGED <<inbox, DEFAULT_RELAY_TTL, emitted, delivered, next_order_id, now, last_beacon, controller>>

\* return dict(self.state.neighbors)
get_neighbors_return ==
    /\ thread["beacon"].pc = "prune"
    /\ thread["beacon"].stale = {}
    /\ thread' = [thread EXCEPT !["beacon"].pc = "got",
                                !["beacon"].snapshot = node[DiscoveryNode].neighbors]
    /\ UNCHANGED <<node, inbox, DEFAULT_RELAY_TTL, emitted, delivered, next_order_id, now, last_beacon, controller>>

\* the beacon is sent, or the exception is logged; time.sleep(DISCOVERY_INTERVAL)
discovery_broadcast_sleep ==
    /\ thread["beacon"].pc \in {"got", "raised"}
    /\ thread' = [thread EXCEPT !["beacon"].pc = "sleep",
                                !["beacon"].due = now + DISCOVERY_INTERVAL,
                                !["beacon"].snapshot = {}]
    /\ UNCHANGED <<node, inbox, DEFAULT_RELAY_TTL, emitted, delivered, next_order_id, now, last_beacon, controller>>

\* _discovery_listen_loop: sock.recvfrom returns the beacon of peer p
discovery_listen_recvfrom(p) ==
    /\ thread["listen"].pc = "recvfrom"
    /\ thread' = [thread EXCEPT !["listen"].pc = "check", !["listen"].peer = p]
    /\ UNCHANGED <<node, inbox, DEFAULT_RELAY_TTL, emitted, delivered, next_order_id, now, last_beacon, controller>>

\* a listen worker that inserts an unknown peer whatever the ping said
discovery_listen_check_no_probe(reachable) ==
    /\ thread["listen"].pc = "check"
    /\ thread' = [thread EXCEPT
           !["listen"].known = thread["listen"].peer \in node[DiscoveryNode].neighbors,
           !["listen"].probe = IF reachable THEN "ok" ELSE "failed",
           !["listen"].pc = IF thread["listen"].peer \notin node[DiscoveryNode].neighbors
                            THEN "add"
                            ELSE IF reachable THEN "touch" ELSE "remove"]
    /\ UNCHANGED <<node, inbox, DEFAULT_RELAY_TTL, emitted, delivered, next_order_id, now, last_beacon, controller>>

\* the test for the node's own beacon, the test on state.neighbors and the
\* ping of _is_reachable; known and probe are the outcomes of the two tests
\* ("none": the loop continued before any ping was sent)
discovery_listen_check(reachable) ==
    /\ thread["listen"].pc = "check"
    /\ LET own == thread["listen"].peer = DiscoveryNode
           known == thread["listen"].peer \in node[DiscoveryNode].neighbors
       IN thread' = [thread EXCEPT
              !["listen"].known = ~own /\ known,
              !["listen"].probe = IF own THEN "none" ELSE IF reachable THEN "ok" ELSE "failed",
              !["listen"].pc =
                  IF own THEN LoopHead("recvfrom")
                  ELSE IF ~known
                  THEN IF reachable THEN "add" ELSE LoopHead("recvfrom")
                  ELSE IF reachable THEN "touch" ELSE "remove"]
    /\ UNCHANGED <<node, inbox, DEFAULT_RELAY_TTL, emitted, delivered, next_order_id, now, last_beacon, controller>>

\* add_neighbor, first statement: self.state.neighbors[node_id] = address
discovery_listen_add_neighbors ==
    /\ thread["listen"].pc = "add"
    /\ node' = [node EXCEPT ![DiscoveryNode].neighbors = @ \cup {thread["listen"].peer}]
    /\ thread' = [thread EXCEPT !["listen"].pc = "add2"]
    /\ UNCHANGED <<inbox, DEFAULT_RELAY_TTL, emitted, delivered, next_order_id, now, last_beacon, controller>>

\* add_neighbor, second statement: self.p2p_connections[node_id] = PeerInfo(...)
discovery_listen_add_p2p ==
    /\ thread["listen"].pc = "add2"
    /\ node' = [node EXCEPT ![DiscoveryNode].p2p_connections =
                                 WithPeer(@, thread["listen"].peer, now)]
    /\ thread' = [thread EXCEPT
                    !["listen"].pc = LoopHead("recvfrom"),
                    !["listen"].known = FALSE,
                    !["listen"].probe = "none",
                    !["beacon"].broken =
                        @ \/ (/\ thread["beacon"].pc = "iter"
                              /\ thread["listen"].peer
                                    \notin DOMAIN node[DiscoveryNode].p2p_connections)]
    /\ last_beacon' = WithPeer(last_beacon, thread["listen"].peer, now)
    /\ UNCHANGED <<inbox, DEFAULT_RELAY_TTL, emitted, delivered, next_order_id, now, controller>>

\* peer = self.p2p_connections.get(node_id); if peer: peer.last_seen = time.time()
discovery_listen_touch ==
    /\ thread["listen"].pc = "touch"
    /\ node' = [node EXCEPT ![DiscoveryNode].p2p_connections =
                    IF thread["listen"].peer \in DOMAIN @
                    THEN WithPeer(@, thread["listen"].peer, now) ELSE @]
    /\ thread' = [thread EXCEPT !["listen"].pc = LoopHead("recvfrom"),
                                !["listen"].known = FALSE,
                                !["listen"].probe = "none"]
    /\ last_beacon' = WithPeer(last_beacon, thread["listen"].peer, now)
    /\ UNCHANGED <<inbox, DEFAULT_RELAY_TTL, emitted, delivered, next_order_id, now, controller>>

\* remove_neighbor of an unreachable peer, first statement
discovery_listen_remove_neighbors ==
    /\ thread["listen"].pc = "remove"
    /\ node' = [node EXCEPT ![DiscoveryNode].neighbors = @ \ {thread["listen"].peer}]
    /\ thread' = [thread EXCEPT !["listen"].pc = "remove2"]
    /\ UNCHANGED <<inbox, DEFAULT_RELAY_TTL, emitted, delivered, next_order_id, now, last_beacon, controller>>

\* remove_neighbor of an unreachable peer, second statement
discovery_listen_remove_p2p ==
    /\ thread["listen"].pc = "remove2"
    /\ node' = [node EXCEPT ![DiscoveryNode].p2p_connections =
                                 WithoutPeer(@, thread["listen"].peer)]
    /\ thread' = [thread EXCEPT
                    !["listen"].pc = LoopHead("recvfrom"),
                    !["listen"].known = FALSE,
                    !["listen"].probe = "none",
                    !["beacon"].broken =
                        @ \/ (/\ thread["beacon"].pc = "iter"
                              /\ thread["listen"].peer
                                    \in DOMAIN node[DiscoveryNode].p2p_connections)]
    /\ UNCHANGED <<inbox, DEFAULT_RELAY_TTL, emitted, delivered, next_order_id, now, last_beacon, controller>>

\* Client.stop_fastpay_services: self._running = False
stop_fastpay_services(self) ==
    /\ node[self].running
    /\ node' = [node EXCEPT ![self].running = FALSE]
    /\ UNCHANGED <<inbox, DEFAULT_RELAY_TTL, emitted, delivered, next_order_id, now, thread, last_beacon, controller>>

\* _message_handler_loop: receive_message(timeout=1.0) returned None and the
\* loop test fails
message_handler_exit ==
    /\ thread["receive"].pc = "loop"
    /\ ~node[DiscoveryNode].running
    /\ inbox[DiscoveryNode] = <<>>
    /\ thread' = [thread EXCEPT !["receive"].pc = "done"]
    /\ UNCHANGED <<node, inbox, DEFAULT_RELAY_TTL, emitted, delivered, next_order_id, now, last_beacon, controller>>

\* _retry_loop: time.sleep(self._retry_interval) is over and the loop test
\* fails
retry_exit ==
    /\ thread["retry"].pc = "loop"
    /\ ~node[DiscoveryNode].running
    /\ node[DiscoveryNode].retry_pc = "sleep"
    /\ thread' = [thread EXCEPT !["retry"].pc = "done"]
    /\ UNCHANGED <<node, inbox, DEFAULT_RELAY_TTL, emitted, delivered, next_order_id, now, last_beacon, controller>>

\* time passes while every discovery worker sleeps or waits
tick ==
    /\ now < MaxTime
    /\ \/ thread["beacon"].pc = "done"
       \/ thread["beacon"].pc = "sleep" /\ thread["beacon"].due > now
    /\ thread["listen"].pc \in {"recvfrom", "done"}
    /\ now' = now + 1
    /\ UNCHANGED <<node, inbox, DEFAULT_RELAY_TTL, emitted, delivered, next_order_id, thread, last_beacon, controller>>

InitDiscovery ==
    /\ InitCommon
    /\ DEFAULT_RELAY_TTL = 8
    /\ node = [n \in Nodes |->
                 IF n = DiscoveryNode THEN Started(NewClient({"A1"}, {})) ELSE Absent(n)]

SpecDiscovery ==
    /\ InitDiscovery
    /\ [][ \/ discovery_broadcast_wake
           \/ get_neighbors_iterate
           \/ get_neighbors_pop_neighbors
           \/ get_neighbors_pop_p2p
           \/ get_neighbors_return
           \/ discovery_broadcast_sleep
           \/ \E p \in {DiscoveryNode, "N1", "A1"} : discovery_listen_recvfrom(p)
           \/ \E reachable \in BOOLEAN : discovery_listen_check(reachable)
           \/ discovery_listen_add_neighbors
           \/ discovery_listen_add_p2p
           \/ discovery_listen_touch
           \/ discovery_listen_remove_neighbors
           \/ discovery_listen_remove_p2p
           \/ stop_fastpay_services(DiscoveryNode)
           \/ message_handler_exit
           \/ retry_exit
           \/ tick ]_vars

\* the peer whose verified beacon the listen worker is recording right now
Arriving == IF thread["listen"].pc = "add2" THEN {thread["listen"].peer} ELSE {}

\* C15 (as claimed): while the node runs, a peer in the neighbour table had
\* its last verified beacon at most NEIGHBOR_TIMEOUT + DISCOVERY_INTERVAL
\* ago: the beacon worker has pruned it otherwise.
C15_EvictionWithinOneCycle ==
    node[DiscoveryNode].running =>
        \A p \in node[DiscoveryNode].neighbors \ Arriving :
            now - last_beacon[p] <= NEIGHBOR_TIMEOUT + DISCOVERY_INTERVAL

\* C16 (as claimed): when get_neighbors returns, every peer of the snapshot
\* had a verified beacon within NEIGHBOR_TIMEOUT of the time of the call, and
\* no PeerInfo older than that is left in the table.
C16_SnapshotHasNoStalePeer ==
    thread["beacon"].pc = "got" =>
        /\ \A p \in thread["beacon"].snapshot \ Arriving :
              thread["beacon"].t - last_beacon[p] <= NEIGHBOR_TIMEOUT
        /\ stale_ids(node[DiscoveryNode], thread["beacon"].t) = {}

\* C19 (as claimed): after the running flag is set to false every worker
\* leaves its loop even if no message or beacon arrives any more; so when the
\* receive, retry and beacon workers have left, the listen worker is not
\* waiting in a call that only an arriving beacon can end.
C19_NoWorkerBlockedAfterStop ==
    (/\ ~node[DiscoveryNode].running
     /\ \A w \in {"receive", "retry", "beacon"} : thread[w].pc = "done")
    => thread["listen"].pc # "recvfrom"

\* C20 (as claimed): no worker is inside an access to the neighbour table
\* while another worker is in the middle of mutating it.
C20_TableAccessMutuallyExclusive ==
    \* the listen worker between the two statements of add_neighbor or
    \* remove_neighbor, the beacon worker inside get_neighbors
    ~(/\ thread["listen"].pc \in {"add2", "remove2"}
      /\ thread["beacon"].pc \in {"iter", "prune", "pop"})

(***************************************************************************)
(* Quorum thresholds: a client is built with a committee of n members and  *)
(* started; the simple client and the CLI compute theirs for the same      *)
(* committee.                                                              *)
(***************************************************************************)
MaxCommittee == 100

InitQuorum ==
    /\ InitCommon
    /\ DEFAULT_RELAY_TTL = 8
    /\ \E n \in 1..MaxCommittee :
          node = [x \in Nodes |-> IF x = "C" THEN NewClient(1..n, {}) ELSE Absent(x)]

SpecQuorum ==
    /\ InitQuorum
    /\ [][ \/ start_fastpay_services("C")
           \/ stop_fastpay_services("C") ]_vars

\* C17: for every committee size n in 1..100 the threshold of the buffered
\* client (once started), of the simple client and of the CLI equals
\* floor(n * 2 / 3) + 1.
C17_QuorumFormula ==
    LET committee == node["C"].committee
        n == Cardinality(committee)
    IN /\ calculate_quorum(node["C"]) = (n * 2) \div 3 + 1
       /\ node["C"].running => node["C"].quorum_threshold = (n * 2) \div 3 + 1
       /\ simple_client_quorum(n) = (n * 2) \div 3 + 1
       /\ quorum_weight(committee) = (n * 2) \div 3 + 1

\* a started client whose committee size is a multiple of 3, where the exact
\* product n * 2/3 is an integer and the float product has to round up to it
C17_Witness ==
    /\ Cardinality(node["C"].committee) = 99
    /\ node["C"].running
    /\ node["C"].quorum_threshold = 67
    /\ quorum_weight(node["C"].committee) = 67

(***************************************************************************)
(* Wire codec (messages.py).  Python objects and their JSON forms are      *)
(* kept apart: a UUID, an enum member and a str are tagged scalars, an     *)
(* Address object carries its class and the dict made of it does not.      *)
(* In this part `emitted` holds the object handed to the transport with    *)
(* its typed body, the receiver's inbox holds the JSON text, and           *)
(* `delivered` counts the objects the receiver rebuilt.                    *)
(***************************************************************************)
PEER_DISCOVERY == "peer_discovery"
MESH_RELAY == "mesh_relay"

PyNone == [t |-> "NoneType"]
UUID(v) == [t |-> "UUID", v |-> v]
MessageType(v) == [t |-> "MessageType", v |-> v]
NodeType(v) == [t |-> "NodeType", v |-> v]
str(v) == [t |-> "str", v |-> v]

Address(node_id, ip_address, port, node_type) ==
    [class |-> "Address", node_id |-> node_id, ip_address |-> ip_address,
     port |-> port, node_type |-> node_type]

\* asdict(address) followed by node_type -> node_type.value
address_to_dict(a) ==
    [node_id |-> a.node_id, ip_address |-> a.ip_address, port |-> a.port,
     node_type |-> str(a.node_type.v)]

\* NodeType(str) and Address(**dict)
address_from_dict(d) ==
    Address(d.node_id, d.ip_address, d.port,
            IF d.node_type.t = "str" THEN NodeType(d.node_type.v) ELSE d.node_type)

\* the TransferOrder dataclass with all its fields; __post_init__ stamps a
\* zero timestamp
TransferOrderObject(order_id, sender, recipient, token_address, amount, sequence_number, timestamp, signature, epoch, ttl) ==
    [order_id |-> order_id, sender |-> sender, recipient |-> recipient,
     token_address |-> token_address, amount |-> amount,
     sequence_number |-> sequence_number,
     timestamp |-> IF timestamp = 0 THEN now ELSE timestamp,
     signature |-> signature, epoch |-> epoch, ttl |-> ttl]

\* the TransferRequestMessage dataclass
TransferRequestObject(transfer_order) == [transfer_order |-> transfer_order]

TransferRequestMessage_to_payload(self) ==
    [transfer_order |->
        [order_id |-> str(self.transfer_order.order_id.v),
         sender |-> self.transfer_order.sender,
         recipient |-> self.transfer_order.recipient,
         token_address |-> self.transfer_order.token_address,
         amount |-> self.transfer_order.amount,
         sequence_number |-> self.transfer_order.sequence_number,
         timestamp |-> self.transfer_order.timestamp,
         signature |-> self.transfer_order.signature]]

\* TransferOrder(**transfer_data): fields the dict lacks take their defaults,
\* epoch = 0 and ttl = 30.0
TransferRequestMessage_from_payload(payload) ==
    LET transfer_data == payload.transfer_order
        order_id == IF transfer_data.order_id.t = "str"
                    THEN UUID(transfer_data.order_id.v) ELSE transfer_data.order_id
        epoch == IF "epoch" \in DOMAIN transfer_data THEN transfer_data.epoch ELSE 0
        ttl == IF "ttl" \in DOMAIN transfer_data THEN transfer_data.ttl ELSE 30
    IN TransferRequestObject(
           TransferOrderObject(order_id, transfer_data.sender, transfer_data.recipient,
                               transfer_data.token_address, transfer_data.amount,
                               transfer_data.sequence_number, transfer_data.timestamp,
                               transfer_data.signature, epoch, ttl))

PeerDiscoveryMessage(node_info, service_capabilities, network_metrics) ==
    [node_info |-> node_info, service_capabilities |-> service_capabilities,
     network_metrics |-> network_metrics]

PeerDiscoveryMessage_to_payload(self) ==
    [node_info |-> address_to_dict(self.node_info),
     service_capabilities |-> self.service_capabilities,
     network_metrics |-> self.network_metrics]

PeerDiscoveryMessage_from_payload(payload) ==
    PeerDiscoveryMessage(address_from_dict(payload.node_info),
                         payload.service_capabilities, payload.network_metrics)

MeshRelayMessage_to_payload(self) ==
    [original_sender_id |-> self.original_sender_id,
     origin_address |-> self.origin_address,
     inner_message_type |-> self.inner_message_type,
     inner_payload |-> self.inner_payload,
     order_id |-> self.order_id, ttl |-> self.ttl,
     hop_path |-> [i \in 1..Len(self.hop_path) |-> self.hop_path[i]]]

MeshRelayMessage_from_payload(payload) ==
    MeshRelayMessage(payload.original_sender_id, payload.origin_address,
                     payload.inner_message_type, payload.inner_payload,
                     payload.order_id, payload.ttl, payload.hop_path)

\* the Message dataclass with all its fields
MessageObject(message_id, message_type, sender, recipient, timestamp, payload, signature) ==
    [message_id |-> message_id, message_type |-> message_type, sender |-> sender,
     recipient |-> recipient,
     timestamp |-> IF timestamp = 0 THEN now ELSE timestamp,
     payload |-> payload, signature |-> signature]

\* Message.to_json: the dict that json.dumps writes
to_json(self) ==
    [message_id |-> str(self.message_id.v),
     message_type |-> str(self.message_type.v),
     sender |-> address_to_dict(self.sender),
     recipient |-> IF self.recipient = PyNone THEN PyNone ELSE address_to_dict(self.recipient),
     timestamp |-> self.timestamp,
     payload |-> self.payload,
     signature |-> self.signature]

\* Message.from_json
from_json(data) ==
    MessageObject(UUID(data.message_id.v), MessageType(data.message_type.v),
                  address_from_dict(data.sender),
                  IF data.recipient = PyNone THEN PyNone ELSE address_from_dict(data.recipient),
                  data.timestamp, data.payload, data.signature)

\* the typed body of a payload, by the envelope's discriminator
to_payload(body, message_type) ==
    CASE message_type = TRANSFER_REQUEST -> TransferRequestMessage_to_payload(body)
      [] message_type = PEER_DISCOVERY -> PeerDiscoveryMessage_to_payload(body)
      [] message_type = MESH_RELAY -> MeshRelayMessage_to_payload(body)

from_payload(payload, message_type) ==
    CASE message_type = TRANSFER_REQUEST -> TransferRequestMessage_from_payload(payload)
      [] message_type = PEER_DISCOVERY -> PeerDiscoveryMessage_from_payload(payload)
      [] message_type = MESH_RELAY -> MeshRelayMessage_from_payload(payload)

\* the message schema, bounded: the bodies by discriminator
SchemaBodies ==
    LET SchemaAddresses ==
            {Address(n, "10.0.0.1", 8000, NodeType(nt)) :
                n \in {"C", "A1"}, nt \in {"authority", "client", "gateway"}}
        SchemaOrders ==
            {TransferOrderObject(UUID(id), "C", "R", "0xtoken", 10, 1, 7, sig, epoch, ttl) :
                id \in {1, 2}, sig \in {NoneStr, "sig"}, epoch \in {0, 1}, ttl \in {30, 5}}
        SchemaRequests == {TransferRequestObject(o) : o \in SchemaOrders}
        SchemaBeacons ==
            {PeerDiscoveryMessage(a, caps, NoneStr) :
                a \in SchemaAddresses, caps \in {<<>>, <<"relay">>}}
        SchemaBundles ==
            {MeshRelayMessage("C", address_to_dict(Address("C", "10.0.0.1", 8000, NodeType("client"))),
                              TRANSFER_REQUEST, TransferRequestMessage_to_payload(r),
                              r.transfer_order.order_id.v, ttl, hop_path) :
                r \in SchemaRequests, ttl \in {0, 3}, hop_path \in {<<>>, <<"C">>}}
    IN ({TRANSFER_REQUEST} \X SchemaRequests) \cup ({PEER_DISCOVERY} \X SchemaBeacons)
           \cup ({MESH_RELAY} \X SchemaBundles)

\* the sender builds the envelope around body.to_payload() and the transport
\* writes its JSON text to the recipient
send_message(kind, body, recipient) ==
    /\ emitted = <<>>
    /\ LET message == MessageObject(UUID(next_order_id), MessageType(kind),
                                    Address("C", "10.0.0.1", 8000, NodeType("client")),
                                    recipient, 5, to_payload(body, kind), NoneStr)
       IN /\ emitted' = <<[message |-> message, body |-> body]>>
          /\ inbox' = [inbox EXCEPT !["A1"] = Append(@, to_json(message))]
    /\ UNCHANGED <<node, DEFAULT_RELAY_TTL, delivered, next_order_id, now, thread, last_beacon, controller>>

\* the receiver rebuilds the envelope and, by its discriminator, the body
receive_message ==
    /\ inbox["A1"] # <<>>
    /\ LET message == from_json(Head(inbox["A1"]))
           k == [message |-> message, body |-> from_payload(message.payload, message.message_type.v)]
       IN delivered' = [x \in DOMAIN delivered \cup {k} |-> IF x = k THEN Count(delivered, k) + 1 ELSE delivered[x]]
    /\ inbox' = [inbox EXCEPT !["A1"] = Tail(@)]
    /\ UNCHANGED <<node, DEFAULT_RELAY_TTL, emitted, next_order_id, now, thread, last_beacon, controller>>

InitCodec ==
    /\ InitCommon
    /\ DEFAULT_RELAY_TTL = 8
    /\ node = [x \in Nodes |-> Absent(x)]

SpecCodec ==
    /\ InitCodec
    /\ [][ \/ \E b \in SchemaBodies, recipient \in {PyNone, Address("A1", "10.0.0.2", 8000, NodeType("authority"))} : send_message(b[1], b[2], recipient)
           \/ receive_message ]_vars

\* C18: every message of the schema is rebuilt by the receiver as it was
\* sent: the envelope, and its body (a transfer request with every field of
\* its TransferOrder, epoch and ttl included, a relay bundle, a beacon).
C18_RoundTrip == \A d \in DOMAIN delivered : d = emitted[1]
(***************************************************************************)
(* The discovery decision table (mesh_utils.py 149-174), under             *)
(* SpecDiscovery.                                                          *)
(***************************************************************************)
\* C21 (as claimed): the listen worker decides per received beacon.  Its own
\* beacon changes nothing; it inserts a peer or refreshes a peer's last_seen
\* only for the peer of the beacon in hand and only after the ping of that
\* beacon succeeded; it removes a peer only if the peer was known when tested
\* and the ping failed, and then it does remove it; for an unknown peer whose
\* ping failed it returns to recvfrom with the table unchanged.
C21_DecisionTable ==
    [][LET l == thread["listen"]
           l2 == thread'["listen"]
           nbrs == node[DiscoveryNode].neighbors
           nbrs2 == node'[DiscoveryNode].neighbors
           p2p == node[DiscoveryNode].p2p_connections
           p2p2 == node'[DiscoveryNode].p2p_connections
           Inserted(q) == \/ q \notin nbrs /\ q \in nbrs2
                          \/ q \notin DOMAIN p2p /\ q \in DOMAIN p2p2
           Refreshed(q) == q \in DOMAIN p2p /\ q \in DOMAIN p2p2 /\ p2p2[q] # p2p[q]
           Removed(q) == \/ q \in nbrs /\ q \notin nbrs2
                         \/ q \in DOMAIN p2p /\ q \notin DOMAIN p2p2
           Untouched == nbrs2 = nbrs /\ p2p2 = p2p
       IN l2 # l =>
            /\ \A q \in Nodes :
                  /\ Inserted(q) \/ Refreshed(q) =>
                        q = l.peer /\ q # DiscoveryNode /\ l.probe = "ok"
                  /\ Removed(q) => q = l.peer /\ l.known /\ l.probe = "failed"
            /\ l.pc = "check" =>
                  /\ Untouched
                  /\ l.peer = DiscoveryNode => l2.pc \in {"recvfrom", "done"} /\ l2.probe = "none"
                  /\ l2.probe = "failed" /\ ~l2.known => l2.pc \in {"recvfrom", "done"}
                  /\ l2.probe = "failed" /\ l2.known => l2.pc = "remove"
            /\ l.pc = "remove" => l.peer \notin nbrs2
            /\ l.pc = "remove2" => l.peer \notin DOMAIN p2p2
      ]_vars

\* the node ignored its own beacon while it held a peer that a verified
\* beacon had inserted
C21_Witness ==
    /\ thread["listen"].pc = "recvfrom"
    /\ thread["listen"].peer = DiscoveryNode
    /\ "N1" \in node[DiscoveryNode].neighbors
    /\ "N1" \in DOMAIN last_beacon

(***************************************************************************)
(* C with the committee {A1} and the neighbour A1 that add_neighbor        *)
(* registered at time 0, right after start_fastpay_services: no worker has *)
(* run yet, the listen worker has not bound its socket.                    *)
(***************************************************************************)
InitRace ==
    /\ inbox = [n \in Nodes |-> <<>>]
    /\ emitted = <<>>
    /\ delivered = [k \in {} |-> 0]
    /\ next_order_id = 1
    /\ now = 0
    /\ thread = [w \in {"caller", "receive", "retry", "beacon", "listen"} |->
                    IF w = "listen" THEN [NewThread(w) EXCEPT !.pc = "bind"]
                    ELSE NewThread(w)]
    /\ last_beacon = [q \in {} |-> 0]
    /\ controller = NewController(DEFAULT_MISS_THRESHOLD, 1)
    /\ DEFAULT_RELAY_TTL = 8
    /\ node = [n \in Nodes |->
                 IF n = "C" THEN Started(NewClient({"A1"}, {"A1"}))
                 ELSE IF n = "A1" THEN NewAuthority({"C"}, TRUE)
                 ELSE Absent(n)]

(***************************************************************************)
(* Bind failure of the discovery port.  The listen worker of C fails to    *)
(* bind DISCOVERY_PORT and returns.  The clock runs, the beacon worker and *)
(* the receive workers run, and C issues transfers at any time.            *)
(***************************************************************************)

\* _discovery_listen_loop: sock.bind raises OSError; the error is logged and
\* the worker returns
discovery_listen_bind_fails ==
    /\ thread["listen"].pc = "bind"
    /\ thread' = [thread EXCEPT !["listen"].pc = "done"]
    /\ UNCHANGED <<node, inbox, DEFAULT_RELAY_TTL, emitted, delivered, next_order_id, now, last_beacon, controller>>

SpecBind ==
    /\ InitRace
    /\ [][ \/ discovery_listen_bind_fails
           \/ discovery_broadcast_wake
           \/ get_neighbors_iterate
           \/ get_neighbors_pop_neighbors
           \/ get_neighbors_pop_p2p
           \/ get_neighbors_return
           \/ discovery_broadcast_sleep
           \/ tick
           \/ transfer("C", "R", 10)
           \/ \E n \in Nodes : process_message(n) ]_vars

\* C22 (as claimed): after the bind of DISCOVERY_PORT failed, only the
\* listen worker has stopped: the node still runs, its receive and beacon
\* workers have not ended, and every transfer it has issued was flooded to
\* A1, the neighbour registered by add_neighbor.
C22_BindFailureKeepsFlooding ==
    thread["listen"].pc = "done" =>
        /\ node["C"].running
        /\ thread["receive"].pc = "loop"
        /\ thread["beacon"].pc # "done"
        /\ \A o \in 1..(next_order_id - 1) :
              \/ Count(delivered, <<"A1", o, TRANSFER_REQUEST>>) >= 1
              \/ \E i \in 1..Len(inbox["A1"]) : inbox["A1"][i].payload.order_id = o

(***************************************************************************)
(* The caller of transfer(), the receive worker and the retry worker of C  *)
(* as three threads.  The discovery workers are left out.  The             *)
(* floods are the points where a thread gives way to another one:          *)
(* transfer() between its flood and its queue insert, and the receive      *)
(* worker between the flood of broadcast_confirmation and "Clear local     *)
(* state".                                                                 *)
(***************************************************************************)

\* Client.transfer up to the return of _relay_to_neighbors
transfer_relay(self, recipient, amount) ==
    /\ next_order_id <= MaxOrders
    /\ thread["caller"].pc = "loop"
    /\ LET order == TransferOrder(next_order_id, self, recipient, amount,
                                  node[self].sequence_number)
           relay_msg == build_relay_message(self, TRANSFER_REQUEST,
                            TransferRequestMessage(order), order.order_id,
                            NoneStr, NoneStr, NoneInt, NoneSeq)
           st1 == [node[self] EXCEPT !.pending_transfer = order,
                                     !.seen_order_ids = @ \cup {order.order_id}]
       IN /\ Commit(self, Ctx(after_relay(st1, relay_msg),
                              relay_to_neighbors(inbox, self, st1, relay_msg),
                              emitted, delivered))
          /\ thread' = [thread EXCEPT !["caller"].pc = "buffer", !["caller"].order = order]
    /\ next_order_id' = next_order_id + 1
    /\ UNCHANGED <<DEFAULT_RELAY_TTL, now, last_beacon, controller>>

\* Client.transfer, "Buffer for retry"
transfer_buffer(self) ==
    /\ thread["caller"].pc = "buffer"
    /\ LET order == thread["caller"].order
       IN node' = [node EXCEPT
             ![self].btx = [o \in DOMAIN @ \cup {order.order_id} |->
                              IF o = order.order_id
                              THEN BufferedTransaction(order, node[self].quorum_threshold)
                              ELSE @[o]],
             ![self].transaction_queue = @ \cup {order.order_id}]
    /\ thread' = [thread EXCEPT !["caller"].pc = "loop", !["caller"].order = NoOrder]
    /\ UNCHANGED <<inbox, DEFAULT_RELAY_TTL, emitted, delivered, next_order_id, now, last_beacon, controller>>

\* the receive worker takes a TRANSFER_RESPONSE that completes the quorum and
\* runs _handle_mesh_relay, handle_transfer_response, _on_quorum_reached and
\* broadcast_confirmation up to the return of its _relay_to_neighbors
process_message_to_flood(self) ==
    /\ self \in Clients
    /\ node[self].running
    /\ thread["receive"].pc = "loop"
    /\ inbox[self] # <<>>
    /\ LET relay == Head(inbox[self]).payload
           resp == relay.inner_payload
           c0 == Ctx([node[self] EXCEPT !.seen_order_ids = @ \cup {relay.order_id}],
                     [inbox EXCEPT ![self] = Tail(@)], emitted, delivered)
           c1 == [Delivered(c0, self, relay.order_id, TRANSFER_RESPONSE) EXCEPT
                     !.st = track_signature(@, resp)]
           order == c1.st.pending_transfer
       IN /\ ~IsDuplicate(node[self], self, relay)
          /\ relay.inner_message_type = TRANSFER_RESPONSE
          /\ relay.original_sender_id = self
          /\ validate_transfer_response(node[self], self, resp)
          /\ check_quorum(c1.st, resp.transfer_order.order_id)
          /\ order # NoOrder
          /\ Len(CertsFor(c1.st, order.order_id)) >= c1.st.quorum_threshold
          /\ Commit(self, broadcast_confirmation_relay(self, c1))
          /\ thread' = [thread EXCEPT !["receive"].pc = "clear",
                                      !["receive"].order = order,
                                      !["receive"].relay = relay]
    /\ UNCHANGED <<DEFAULT_RELAY_TTL, next_order_id, now, last_beacon, controller>>

\* the receive worker goes on: "Clear local state", the rest of
\* _on_quorum_reached and the re-relay of _handle_mesh_relay
process_message_after_flood(self) ==
    /\ thread["receive"].pc = "clear"
    /\ LET relay == thread["receive"].relay
           order_id == relay.inner_payload.transfer_order.order_id
           c1 == broadcast_confirmation_clear(thread["receive"].order, Here(self))
           c2 == IF order_id \in c1.st.transaction_queue
                 THEN [c1 EXCEPT !.st.btx[order_id].status = FINALIZED,
                                 !.st.transaction_queue = @ \ {order_id}]
                 ELSE c1
       IN Commit(self, reflood(self, relay, c2))
    /\ thread' = [thread EXCEPT !["receive"].pc = "loop",
                                !["receive"].order = NoOrder,
                                !["receive"].relay = NoOrder]
    /\ UNCHANGED <<DEFAULT_RELAY_TTL, next_order_id, now, last_beacon, controller>>

\* the caller of transfer() against the two workers
SpecCallerRace ==
    /\ InitRace
    /\ [][ \/ transfer_relay("C", "R", 10)
           \/ transfer_buffer("C")
           \/ \E n \in Nodes : process_message(n)
           \/ retry_begin("C")
           \/ retry_resubmit("C")
           \/ retry_recheck("C")
           \/ retry_end("C") ]_vars

\* the orders for which C has emitted a CONFIRMATION_REQUEST
Confirmed == { emitted[i].transfer_order.order_id : i \in 1..Len(emitted) }

\* C23 (as claimed): an order whose quorum was reached and whose confirmation
\* was emitted is never again in the buffered-transaction map in state
\* BUFFERED, where the retry loop would re-submit it.
C23_FinalizedIsTerminal ==
    \A o \in Confirmed :
        ~(o \in node["C"].transaction_queue /\ node["C"].btx[o].status = BUFFERED)

\* one transfer() against the receive worker and the retry worker
SpecWorkerRace ==
    /\ InitRace
    /\ [][ \/ /\ next_order_id = 1
              /\ transfer("C", "R", 10)
           \/ \E n \in Nodes : thread["receive"].pc = "loop" /\ process_message(n)
           \/ process_message_to_flood("C")
           \/ process_message_after_flood("C")
           \/ retry_begin("C")
           \/ retry_resubmit("C")
           \/ retry_recheck("C")
           \/ retry_end("C") ]_vars

\* C27 (as claimed): whenever no worker is inside a handler, C has applied
\* the debit once and advanced sequence_number by one for each order it has
\* confirmed.
C27_DebitOncePerOrder ==
    thread["receive"].pc = "loop" /\ node["C"].retry_pc = "sleep" =>
        /\ node["C"].balance = -10 * Cardinality(Confirmed)
        /\ node["C"].sequence_number = 1 + Cardinality(Confirmed)

(***************************************************************************)
(* Malformed bundles.  A neighbour of C sends MESH_RELAY messages that     *)
(* cannot be decoded: the relay payload itself lacks its keys (outer), or  *)
(* the inner payload of a bundle that C decodes does.                      *)
(***************************************************************************)

\* transport: a malformed MESH_RELAY message from sender arrives at recipient
garbled_bundle(sender, recipient, inner_type, order_id, outer) ==
    /\ Len(inbox[recipient]) < 2
    /\ inbox' = [inbox EXCEPT ![recipient] =
                   Append(@, Message(sender, recipient,
                       IF outer THEN [garbage |-> TRUE]
                       ELSE build_relay_message(sender, inner_type, [garbage |-> TRUE],
                                order_id, recipient, NoneStr, NoneInt, NoneSeq)))]
    /\ UNCHANGED <<node, DEFAULT_RELAY_TTL, emitted, delivered, next_order_id, now, thread, last_beacon, controller>>

SpecGarbled ==
    /\ InitRace
    /\ [][ \/ /\ next_order_id = 1
              /\ transfer("C", "R", 10)
           \/ \E n \in Nodes : process_message(n)
           \/ \E t \in {TRANSFER_RESPONSE, CONFIRMATION_REQUEST}, o \in 1..MaxOrders,
                 outer \in BOOLEAN : garbled_bundle("A1", "C", t, o, outer) ]_vars

\* C24 (as claimed): when the receive worker of a client takes a malformed
\* MESH_RELAY message from its queue, nothing else changes: the node's
\* fields, seen_order_ids included, stay as they were, no callback runs and
\* nothing is sent.
C24_MalformedDroppedSilently ==
    [][\A n \in Clients :
          (/\ inbox[n] # <<>>
           /\ inbox'[n] = Tail(inbox[n])
           /\ \/ "order_id" \notin DOMAIN Head(inbox[n]).payload
              \/ "garbage" \in DOMAIN Head(inbox[n]).payload.inner_payload)
          => /\ node'[n] = node[n]
             /\ delivered' = delivered
             /\ emitted' = emitted
             /\ \A m \in Nodes \ {n} : inbox'[m] = inbox[m]
      ]_vars

(***************************************************************************)
(* Roaming.  C starts with the committee {A1} and the neighbour A1.  The   *)
(* clients R, N1 and N2 are started at any time, and discovery registers   *)
(* the links C-N1, C-N2, N1-R, N2-R, R-A2 and A1-N1 (one direction each)   *)
(* at any time, before or after C's transfer.  A2 is in range of R but     *)
(* down.                                                                   *)
(***************************************************************************)
SpecRoam ==
    /\ InitRace
    /\ [][ \/ \E n \in {"R", "N1", "N2"} : start_fastpay_services(n)
           \/ \E e \in {<<"C", "N1">>, <<"C", "N2">>, <<"N1", "R">>, <<"N2", "R">>,
                        <<"R", "A2">>, <<"A1", "N1">>} :
                 /\ e[2] \notin node[e[1]].neighbors
                 /\ add_neighbor(e[1], e[2])
           \/ /\ next_order_id = 1
              /\ transfer("C", "R", 10)
           \/ \E n \in Nodes : process_message(n) ]_vars

\* C26 (as claimed): R, the recipient of the one order of 10, is credited at
\* most once, however many copies of the CONFIRMATION_REQUEST arrive.
C26_CreditAtMostOnce == node["R"].balance <= 10

\* C29 (as claimed): no node forwards bundles of one order more than once:
\* no receive queue holds two forwarded bundles (hop_path longer than one)
\* of the same order from the same forwarder, TRANSFER_RESPONSE bundles
\* forwarded by their addressee excepted.
C29_ForwardAtMostOnce ==
    \A d \in Nodes : \A i, j \in 1..Len(inbox[d]) :
        (/\ i < j
         /\ inbox[d][i].sender = inbox[d][j].sender
         /\ inbox[d][i].payload.order_id = inbox[d][j].payload.order_id
         /\ Len(inbox[d][i].payload.hop_path) > 1
         /\ Len(inbox[d][j].payload.hop_path) > 1)
        => \E k \in {i, j} :
              /\ inbox[d][k].payload.inner_message_type = TRANSFER_RESPONSE
              /\ inbox[d][k].payload.original_sender_id = inbox[d][k].sender

\* C30: a TRANSFER_RESPONSE is handed to a callback only at the sender of its
\* order, a TRANSFER_REQUEST only at an authority, a CONFIRMATION_REQUEST
\* only at the recipient of its order; every other node only relays.
C30_DeliveryIsAddressed ==
    \A k \in DOMAIN delivered :
        delivered[k] > 0 =>
            /\ k[2] \in DOMAIN node["C"].btx
            /\ k[3] = TRANSFER_RESPONSE => k[1] = node["C"].btx[k[2]].order.sender
            /\ k[3] = TRANSFER_REQUEST => k[1] \in Authorities
            /\ k[3] = CONFIRMATION_REQUEST => k[1] = node["C"].btx[k[2]].order.recipient

\* the three callbacks have run at their addressees, and the bystander N1
\* has handled bundles of the order without a callback
C30_Witness ==
    /\ Count(delivered, <<"C", 1, TRANSFER_RESPONSE>>) >= 1
    /\ Count(delivered, <<"A1", 1, TRANSFER_REQUEST>>) >= 1
    /\ Count(delivered, <<"R", 1, CONFIRMATION_REQUEST>>) >= 1
    /\ 1 \in node["N1"].seen_order_ids

(***************************************************************************)
(* Finalization and confirmation, under SpecS4 (two orders of C, the       *)
(* second one issued while the first is pending).                          *)
(***************************************************************************)

\* C28 (as claimed): a step that marks a buffered transaction of C FINALIZED
\* emits, in that same step, a CONFIRMATION_REQUEST for that order_id.
C28_FinalizedOnlyWithConfirmation ==
    [][\A o \in DOMAIN node'["C"].btx :
          (/\ node'["C"].btx[o].status = FINALIZED
           /\ o \in DOMAIN node["C"].btx => node["C"].btx[o].status # FINALIZED)
          => \E i \in (Len(emitted) + 1)..Len(emitted') :
                emitted'[i].transfer_order.order_id = o
      ]_vars

(***************************************************************************)
(* The re-flood step of _handle_mesh_relay                                 *)
(***************************************************************************)
\* C31: when node n processes a received bundle r, every bundle it forwards
\* (a queued bundle whose hop_path is longer than one entry; the bundles a
\* callback builds start a new hop_path) equals r except that ttl is r.ttl - 1
\* and hop_path is r.hop_path with n appended, and r.ttl > 1; a bundle with
\* ttl > 1 that is not a duplicate is forwarded to every neighbour outside
\* the new hop_path.
C31_RefloodStep ==
    [][\A n \in Nodes :
          Len(inbox'[n]) < Len(inbox[n]) =>
              LET r == Head(inbox[n]).payload
                  Sent(d) == IF d = n THEN {}
                             ELSE { inbox'[d][i].payload :
                                      i \in (Len(inbox[d]) + 1)..Len(inbox'[d]) }
                  Forwarded(d) == { p \in Sent(d) : Len(p.hop_path) >= 2 }
              IN /\ \A d \in Nodes : \A p \in Forwarded(d) :
                        /\ r.ttl > 1
                        /\ p = MeshRelayMessage(r.original_sender_id, r.origin_address,
                                   r.inner_message_type, r.inner_payload, r.order_id,
                                   r.ttl - 1, Append(r.hop_path, n))
                        /\ p.ttl < r.ttl
                        /\ Len(p.hop_path) > Len(r.hop_path)
                 /\ r.ttl > 1 /\ ~IsDuplicate(node[n], n, r) =>
                        \A d \in node'[n].neighbors :
                            ~InPath(d, Append(r.hop_path, n)) => Forwarded(d) # {}
                 /\ r.ttl <= 1 => \A d \in Nodes : Forwarded(d) = {}]_vars

\* with DEFAULT_RELAY_TTL = 2 on the ring, N2 (two hops from C) has processed
\* the request that N1 or A1 forwarded with ttl 1, and R has not heard of the
\* order although the network is empty: N2 did not forward it
C31_Witness ==
    /\ DEFAULT_RELAY_TTL = 2
    /\ "N2" \in node["N1"].neighbors
    /\ Count(delivered, <<"A1", 1, TRANSFER_REQUEST>>) >= 1
    /\ 1 \in node["N2"].seen_order_ids
    /\ 1 \notin node["R"].seen_order_ids
    /\ NetEmpty

(***************************************************************************)
(* Confirmation emission: the committee is {A1, A2}, both C's direct        *)
(* neighbours, so quorum is 2.  Every interleaving of the receive workers, *)
(* the retry worker of C and the host's calls of transfer.                 *)
(***************************************************************************)
InitEmit ==
    /\ InitCommon
    /\ DEFAULT_RELAY_TTL = 8
    /\ node = [n \in Nodes |->
                 IF n = "C" THEN Started(NewClient({"A1", "A2"}, {"A1", "A2"}))
                 ELSE IF n \in {"A1", "A2"} THEN NewAuthority({"C"}, TRUE)
                 ELSE Absent(n)]

SpecEmit ==
    /\ InitEmit
    /\ [][ \/ transfer("C", "R", 10)
           \/ \E n \in Nodes : process_message(n)
           \/ retry_begin("C")
           \/ retry_resubmit("C")
           \/ retry_recheck("C")
           \/ retry_end("C") ]_vars

\* C32: a step in which the client emits a confirmation emits exactly one,
\* for the order o that is its pending order when broadcast_confirmation is
\* entered, with status CONFIRMED and with the signatures, in order of
\* arrival, of exactly the collected responses for o.order_id (in the receive
\* worker the response being handled included); after the step
\* pending_transfer is None, sequence_number is one higher, balance is lower
\* by o.amount, and sent_certificates holds the collected responses of the
\* other orders and none for o.
C32_ConfirmationEmission ==
    [][Len(emitted') > Len(emitted) =>
          LET conf == emitted'[Len(emitted')]
              by_retry == node'["C"].retry_pc # node["C"].retry_pc
              o == IF by_retry THEN node["C"].btx[Head(node["C"].retry_todo)].order
                   ELSE node["C"].pending_transfer
              collected == IF by_retry THEN node["C"].sent_certificates
                           ELSE Append(node["C"].sent_certificates,
                                       Head(inbox["C"]).payload.inner_payload)
              ForOrder(cert) == cert.transfer_order.order_id = o.order_id
              NotForOrder(cert) == cert.transfer_order.order_id # o.order_id
              relevant == SelectSeq(collected, ForOrder)
          IN /\ Len(emitted') = Len(emitted) + 1
             /\ o # NoOrder
             /\ conf.transfer_order = o
             /\ conf.status = CONFIRMED
             /\ conf.authority_signatures =
                    [i \in 1..Len(relevant) |-> relevant[i].authority_signature]
             /\ node'["C"].pending_transfer = NoOrder
             /\ node'["C"].sequence_number = node["C"].sequence_number + 1
             /\ node'["C"].balance = node["C"].balance - o.amount
             /\ SelectSeq(node'["C"].sent_certificates, ForOrder) = <<>>
             /\ node'["C"].sent_certificates = SelectSeq(collected, NotForOrder)]_vars

\* a confirmation was emitted with two signatures while responses for the
\* other order had been collected, and those are still held
C32_Witness ==
    /\ Len(emitted) = 1
    /\ Len(emitted[1].authority_signatures) = 2
    /\ node["C"].pending_transfer = NoOrder
    /\ node["C"].sent_certificates # <<>>

(***************************************************************************)
(* Floods that reach nobody.  C's only neighbour is A1, its committee.     *)
(* The transport of C starts and stops failing, the host removes and       *)
(* re-registers A1, and C issues transfers at any time.                    *)
(***************************************************************************)
\* the transport: from now on send_message returns False for the
\* destinations in failing
transport_fault(self, failing) ==
    /\ node[self].send_failing # failing
    /\ node' = [node EXCEPT ![self].send_failing = failing]
    /\ UNCHANGED <<inbox, DEFAULT_RELAY_TTL, emitted, delivered, next_order_id, now, thread, last_beacon, controller>>

\* MeshMixin.remove_neighbor called by the host
remove_neighbor(self, node_id) ==
    /\ node' = [node EXCEPT ![self].neighbors = @ \ {node_id},
                            ![self].p2p_connections = WithoutPeer(@, node_id)]
    /\ UNCHANGED <<inbox, DEFAULT_RELAY_TTL, emitted, delivered, next_order_id, now, thread, last_beacon, controller>>

SpecOutage ==
    /\ InitRace
    /\ [][ \/ \E failing \in SUBSET {"A1"} : transport_fault("C", failing)
           \/ /\ "A1" \in node["C"].neighbors
              /\ remove_neighbor("C", "A1")
           \/ /\ "A1" \notin node["C"].neighbors
              /\ add_neighbor("C", "A1")
           \/ transfer("C", "R", 10)
           \/ \E n \in Nodes : process_message(n)
           \/ retry_begin("C")
           \/ retry_resubmit("C")
           \/ retry_recheck("C")
           \/ retry_end("C") ]_vars

\* C33: transfer() stores its order as BUFFERED with retry_count 0 whether
\* or not the flood reached anybody; a step that floods (a transfer or a
\* retry) leaves the neighbour table as it was, also when sends fail; the
\* retry worker takes every queued order into its iteration, and for each
\* one that is still BUFFERED it counts a retry and floods the
\* TRANSFER_REQUEST again to every neighbour the transport can reach, and
\* keeps the order BUFFERED in the queue when that is nobody.
C33_ZeroReachFloodBuffers ==
    [][LET c == node["C"]
           c2 == node'["C"]
           Request(m, o) ==
               /\ m.payload.order_id = o
               /\ m.payload.inner_message_type = TRANSFER_REQUEST
               /\ m.payload.hop_path = <<"C">>
               /\ m.payload.ttl = DEFAULT_RELAY_TTL
           Flooded(o) ==
               \A d \in (c2.neighbors \ c.send_failing) \ {"C"} :
                   /\ Len(inbox'[d]) = Len(inbox[d]) + 1
                   /\ Request(inbox'[d][Len(inbox'[d])], o)
           Retried == { o \in DOMAIN c.btx : c2.btx[o].retry_count # c.btx[o].retry_count }
       IN /\ next_order_id' # next_order_id =>
                /\ next_order_id \in c2.transaction_queue
                /\ c2.btx[next_order_id].status = BUFFERED
                /\ c2.btx[next_order_id].retry_count = 0
                /\ Flooded(next_order_id)
          /\ (next_order_id' # next_order_id \/ Retried # {}) =>
                /\ c2.neighbors = c.neighbors
                /\ c2.p2p_connections = c.p2p_connections
          /\ (c.retry_pc = "sleep" /\ c2.retry_pc = "loop") =>
                \A o \in c.transaction_queue :
                    \E i \in 1..Len(c2.retry_todo) : c2.retry_todo[i] = o
          /\ (c.retry_pc = "loop" /\ c.retry_todo # <<>>
                /\ c.btx[Head(c.retry_todo)].status = BUFFERED) =>
                \/ c2.retry_pc = "loop"
                \/ /\ Retried = {Head(c.retry_todo)}
                   /\ c2.btx[Head(c.retry_todo)].retry_count
                         = c.btx[Head(c.retry_todo)].retry_count + 1
                   /\ c2.btx[Head(c.retry_todo)].status = BUFFERED
                   /\ Head(c.retry_todo) \in c2.transaction_queue
                   /\ Flooded(Head(c.retry_todo))
          /\ \A o \in Retried : c2.btx[o].retry_count > c.btx[o].retry_count]_vars

\* the order was flooded three times, by transfer() and by two retries, and
\* only one bundle reached A1, which has not processed it yet: two floods
\* reached nobody and the order is still BUFFERED in the queue
C33_Witness ==
    /\ 1 \in node["C"].transaction_queue
    /\ node["C"].btx[1].status = BUFFERED
    /\ node["C"].btx[1].retry_count = 2
    /\ next_order_id = 2
    /\ Len(inbox["A1"]) = 1
    /\ 1 \notin node["A1"].seen_order_ids

(***************************************************************************)
(* The simple client (nodes/client.py).  It has no transaction queue and   *)
(* no retry worker; its quorum is computed from the committee at every     *)
(* use.  C runs it with the committee {A1, A2}, both its neighbours.       *)
(***************************************************************************)
\* Client.handle_transfer_response of nodes/client.py
simple_handle_transfer_response(self, resp, c) ==
    \* Client.broadcast_confirmation of nodes/client.py
    LET simple_broadcast_confirmation(cx) ==
            LET order == cx.st.pending_transfer
                quorum == simple_client_quorum(Cardinality(cx.st.committee))
                transfer_signatures ==
                    [i \in 1..Len(cx.st.sent_certificates) |->
                        cx.st.sent_certificates[i].authority_signature]
                confirmation == ConfirmationOrder(order, transfer_signatures, CONFIRMED)
                relay_msg == build_relay_message(self, CONFIRMATION_REQUEST,
                                 ConfirmationRequestMessage(confirmation), order.order_id,
                                 NoneStr, NoneStr, NoneInt, NoneSeq)
            IN IF order = NoOrder THEN cx
               ELSE IF Len(cx.st.sent_certificates) < quorum THEN cx
               ELSE [cx EXCEPT
                       !.net = relay_to_neighbors(@, self, cx.st, relay_msg),
                       !.em = Append(@, confirmation),
                       !.st = [after_relay(@, relay_msg) EXCEPT
                                 !.pending_transfer = NoOrder,
                                 !.sequence_number = @ + 1,
                                 !.sent_certificates = <<>>,
                                 !.balance = @ - order.amount]]
    IN
    IF ~validate_transfer_response(c.st, self, resp) THEN c
    ELSE Result({ IF Len(c1.st.sent_certificates)
                        >= simple_client_quorum(Cardinality(c1.st.committee))
                     /\ c1.st.pending_transfer # NoOrder
                  THEN simple_broadcast_confirmation(c1)
                  ELSE c1 : c1 \in {[c EXCEPT !.st.sent_certificates = Append(@, resp)]} })

\* Client.transfer of nodes/client.py
simple_transfer(self, recipient, amount) ==
    /\ next_order_id <= MaxOrders
    /\ LET order == TransferOrder(next_order_id, self, recipient, amount,
                                  node[self].sequence_number)
           relay_msg == build_relay_message(self, TRANSFER_REQUEST,
                            TransferRequestMessage(order), order.order_id,
                            NoneStr, NoneStr, NoneInt, NoneSeq)
           st1 == [node[self] EXCEPT !.pending_transfer = order,
                                     !.seen_order_ids = @ \cup {order.order_id}]
       IN Commit(self, Ctx(after_relay(st1, relay_msg),
                           relay_to_neighbors(inbox, self, st1, relay_msg),
                           emitted, delivered))
    /\ next_order_id' = next_order_id + 1
    /\ UNCHANGED <<DEFAULT_RELAY_TTL, now, thread, last_beacon, controller>>

\* _message_handler_loop of nodes/client.py: receive one message and give it
\* to _handle_mesh_relay with the callbacks of the simple client
simple_process_message(self) ==
    /\ node[self].running
    /\ inbox[self] # <<>>
    /\ LET relay == Head(inbox[self]).payload
           c == Ctx([node[self] EXCEPT !.seen_order_ids = @ \cup {relay.order_id}],
                    [inbox EXCEPT ![self] = Tail(@)], emitted, delivered)
           consumed ==
               IF relay.inner_message_type = TRANSFER_RESPONSE
                  /\ relay.original_sender_id = self
               THEN simple_handle_transfer_response(self, relay.inner_payload,
                        Delivered(c, self, relay.order_id, TRANSFER_RESPONSE))
               ELSE IF relay.inner_message_type = CONFIRMATION_REQUEST
                       /\ relay.inner_payload.confirmation_order.transfer_order.recipient = self
               THEN [Delivered(c, self, relay.order_id, CONFIRMATION_REQUEST) EXCEPT
                       !.st.balance = @ + relay.inner_payload.confirmation_order.transfer_order.amount,
                       !.st.seen_order_ids = @ \ {relay.order_id}]
               ELSE c
       IN IF IsDuplicate(node[self], self, relay)
          THEN Commit(self, Ctx(node[self], [inbox EXCEPT ![self] = Tail(@)],
                                emitted, delivered))
          ELSE Commit(self, Result({ reflood(self, relay, c2) : c2 \in {consumed} }))
    /\ UNCHANGED <<DEFAULT_RELAY_TTL, next_order_id, now, thread, last_beacon, controller>>

InitSimple ==
    /\ InitCommon
    /\ DEFAULT_RELAY_TTL = 8
    /\ node = [n \in Nodes |->
                 IF n = "C" THEN [NewClient({"A1", "A2"}, {"A1", "A2"}) EXCEPT !.running = TRUE]
                 ELSE IF n \in {"A1", "A2"} THEN NewAuthority({"C"}, TRUE)
                 ELSE Absent(n)]

SpecSimple ==
    /\ InitSimple
    /\ [][ \/ simple_transfer("C", "R", 10)
           \/ simple_process_message("C")
           \/ \E a \in Authorities : process_message(a) ]_vars

\* C34 (as claimed): every confirmation the simple client has emitted is for
\* an order of which at least quorum-many responses were delivered to the
\* client, and it carries no more signatures than responses for that order
\* were delivered.
C34_SimpleClientQuorumPerOrder ==
    \A i \in 1..Len(emitted) :
        /\ Count(delivered, <<"C", emitted[i].order_id, TRANSFER_RESPONSE>>)
              >= simple_client_quorum(Cardinality(node["C"].committee))
        /\ Len(emitted[i].authority_signatures)
              <= Count(delivered, <<"C", emitted[i].order_id, TRANSFER_RESPONSE>>)

(***************************************************************************)
(* The retry iterations                                                    *)
(***************************************************************************)
\* C35: the retry worker is in at most one iteration at a time; an iteration
\* starts from a snapshot that holds every queued order once, and takes the
\* orders one after the other; when it reaches an order that is BUFFERED it
\* increases that order's retry_count by exactly one and floods its
\* TRANSFER_REQUEST to every neighbour; no other step changes a retry_count,
\* so a retry_count never decreases.
C35_RetryIterations ==
    [][LET c == node["C"]
           c2 == node'["C"]
           Changed == { o \in DOMAIN c.btx : c2.btx[o].retry_count # c.btx[o].retry_count }
           Once(s) == \A i, j \in 1..Len(s) : s[i] = s[j] => i = j
           Reflooded(o) ==
               \A d \in c2.neighbors \ {"C"} :
                   /\ Len(inbox'[d]) = Len(inbox[d]) + 1
                   /\ inbox'[d][Len(inbox'[d])].payload =
                         MeshRelayMessage("C", "C", TRANSFER_REQUEST,
                                          TransferRequestMessage(c.btx[o].order), o,
                                          DEFAULT_RELAY_TTL, <<"C">>)
       IN /\ (c.retry_pc = "sleep" /\ c2.retry_pc # "sleep") =>
                /\ Once(c2.retry_todo)
                /\ { c2.retry_todo[i] : i \in 1..Len(c2.retry_todo) } = c.transaction_queue
          /\ (c.retry_pc # "sleep" /\ c2.retry_todo # c.retry_todo) =>
                /\ c.retry_pc = "check" \/ c.btx[Head(c.retry_todo)].status # BUFFERED
                /\ c2.retry_todo = Tail(c.retry_todo)
          /\ (c.retry_pc = "loop" /\ c2.retry_pc = "check") =>
                /\ c.btx[Head(c.retry_todo)].status = BUFFERED
                /\ Changed = {Head(c.retry_todo)}
                /\ c2.btx[Head(c.retry_todo)].retry_count
                      = c.btx[Head(c.retry_todo)].retry_count + 1
                /\ Reflooded(Head(c.retry_todo))
          /\ Changed # {} => c.retry_pc = "loop" /\ c2.retry_pc = "check"
          /\ \A o \in DOMAIN c.btx :
                o \in DOMAIN c2.btx /\ c2.btx[o].retry_count >= c.btx[o].retry_count]_vars

\* between two iterations: order 1 went through two of them and order 2,
\* issued after the first, through one; both are still BUFFERED
C35_Witness ==
    /\ node["C"].retry_pc = "sleep"
    /\ node["C"].transaction_queue = {1, 2}
    /\ node["C"].btx[1].status = BUFFERED /\ node["C"].btx[1].retry_count = 2
    /\ node["C"].btx[2].status = BUFFERED /\ node["C"].btx[2].retry_count = 1

(***************************************************************************)
(* The two neighbour structures                                            *)
(***************************************************************************)
\* C36 (as claimed): whenever the listen worker waits in recvfrom (or has
\* ended) and the beacon worker sleeps (or has ended), so that no
\* add_neighbor or remove_neighbor call is in progress, state.neighbors and
\* p2p_connections have the same keys.
C36_NeighborStructuresAgree ==
    (/\ thread["listen"].pc \in {"recvfrom", "done"}
     /\ thread["beacon"].pc \in {"sleep", "done"})
    => node[DiscoveryNode].neighbors = DOMAIN node[DiscoveryNode].p2p_connections

Returned(ctl, op, n, value) == [ctl EXCEPT !.returned = [op |-> op, node |-> n, value |-> value]]

\* FallbackProfile.activate(nodes): del root and add sfq on every node, each
\* in its own try; ran[n] commands run on node n before node.cmd raises
activate(ctl, nodes, ran) ==
    [ctl EXCEPT !.qdisc = [n \in Stations |->
                              IF n \notin nodes \/ ran[n] = 0 THEN ctl.qdisc[n]
                              ELSE IF ran[n] = 1 THEN "default" ELSE "sfq"],
                !.active = TRUE]

\* FallbackProfile.deactivate(): del root on every managed node
deactivate(ctl, ran) ==
    [ctl EXCEPT !.qdisc = [n \in Stations |->
                              IF n \notin ctl.managed_nodes \/ ran[n] = 0 THEN ctl.qdisc[n]
                              ELSE "default"],
                !.active = FALSE]

\* FallbackProfile.record_heartbeat()
record_heartbeat(ran) ==
    /\ LET beat == [controller EXCEPT !.last_heartbeat = now]
       IN controller' = Returned(IF beat.active THEN deactivate(beat, ran) ELSE beat,
                                 "record_heartbeat", NoneStr, FALSE)
    /\ UNCHANGED <<node, inbox, DEFAULT_RELAY_TTL, emitted, delivered, next_order_id, now, thread, last_beacon>>

check_ignores_active(ran) ==
    /\ LET elapsed == now - controller.last_heartbeat
           missed == py_int(py_truediv(elapsed, controller.heartbeat_interval))
       IN controller' =
              IF missed >= controller.miss_threshold
              THEN Returned(activate(controller, controller.managed_nodes, ran),
                            "check", NoneStr, TRUE)
              ELSE Returned(controller, "check", NoneStr, FALSE)
    /\ UNCHANGED <<node, inbox, DEFAULT_RELAY_TTL, emitted, delivered, next_order_id, now, thread, last_beacon>>

\* FallbackProfile.check()
check(ran) ==
    /\ LET elapsed == now - controller.last_heartbeat
           missed == py_int(py_truediv(elapsed, controller.heartbeat_interval))
       IN controller' =
              IF missed >= controller.miss_threshold /\ ~controller.active
              THEN Returned(activate(controller, controller.managed_nodes, ran),
                            "check", NoneStr, TRUE)
              ELSE Returned(controller, "check", NoneStr, FALSE)
    /\ UNCHANGED <<node, inbox, DEFAULT_RELAY_TTL, emitted, delivered, next_order_id, now, thread, last_beacon>>

\* QoSManager.install_priority(node): `ran` of its four tc commands run
\* before node.cmd raises (4: none raises)
install_priority(n, ran) ==
    /\ controller' =
           IF n \in controller.installed_nodes
           THEN Returned(controller, "install_priority", n, TRUE)
           ELSE Returned([controller EXCEPT
                              !.qdisc[n] = IF ran = 0 THEN @
                                           ELSE IF ran = 1 THEN "default" ELSE "prio",
                              !.installed_nodes = IF ran = 4 THEN @ \cup {n} ELSE @],
                         "install_priority", n, ran = 4)
    /\ UNCHANGED <<node, inbox, DEFAULT_RELAY_TTL, emitted, delivered, next_order_id, now, thread, last_beacon>>

\* QoSManager.remove_priority(node)
remove_priority(n, ran) ==
    /\ controller' =
           IF ran = 0 THEN Returned(controller, "remove_priority", n, FALSE)
           ELSE Returned([controller EXCEPT !.qdisc[n] = "default",
                                            !.installed_nodes = @ \ {n}],
                         "remove_priority", n, TRUE)
    /\ UNCHANGED <<node, inbox, DEFAULT_RELAY_TTL, emitted, delivered, next_order_id, now, thread, last_beacon>>

\* a controller process that has built its QoSManager and a FallbackProfile;
\* no mesh node runs, the services' workers are not started
InitController ==
    /\ inbox = [n \in Nodes |-> <<>>]
    /\ emitted = <<>>
    /\ delivered = [k \in {} |-> 0]
    /\ next_order_id = 1
    /\ now = 0
    /\ thread = [w \in {"receive", "retry", "beacon", "listen"} |->
                    [NewThread(w) EXCEPT !.pc = "done"]]
    /\ last_beacon = [q \in {} |-> 0]
    /\ DEFAULT_RELAY_TTL = 8
    /\ node = [n \in Nodes |-> Absent(n)]
    /\ \E miss_threshold \in {1, DEFAULT_MISS_THRESHOLD}, heartbeat_interval \in {1, 2} :
           controller = NewController(miss_threshold, heartbeat_interval)

SpecController ==
    InitController /\ [][\/ tick
                         \/ \E nodes \in SUBSET Stations :
                                /\ controller' = Returned([controller EXCEPT !.managed_nodes = nodes],
                                                          "set_managed_nodes", NoneStr, FALSE)
                                /\ UNCHANGED <<node, inbox, DEFAULT_RELAY_TTL, emitted, delivered, next_order_id, now, thread, last_beacon>>
                         \/ \E ran \in [Stations -> 0..1] : record_heartbeat(ran)
                         \/ \E ran \in [Stations -> 0..2] : check(ran)
                         \/ \E n \in Stations, ran \in 0..4 : install_priority(n, ran)
                         \/ \E n \in Stations, ran \in 0..1 : remove_priority(n, ran)
                         \/ \E nodes \in SUBSET Stations, ran \in [Stations -> 0..2] :
                                /\ controller' = Returned(activate(controller, nodes, ran),
                                                          "activate", NoneStr, FALSE)
                                /\ UNCHANGED <<node, inbox, DEFAULT_RELAY_TTL, emitted, delivered, next_order_id, now, thread, last_beacon>>
                         \/ \E ran \in [Stations -> 0..1] :
                                /\ controller' = Returned(deactivate(controller, ran),
                                                          "deactivate", NoneStr, FALSE)
                                /\ UNCHANGED <<node, inbox, DEFAULT_RELAY_TTL, emitted, delivered, next_order_id, now, thread, last_beacon>>
                      ]_vars

\* C38: a check() call returns True exactly when it switches the profile from
\* inactive to active, and it does so iff floor(elapsed / heartbeat_interval)
\* >= miss_threshold since the last recorded heartbeat and the profile was
\* inactive; a check() on an active profile returns False and leaves every
\* qdisc as it was; after record_heartbeat() the profile is inactive and the
\* heartbeat's time is the call's time.
C38_CheckActivatesOnce ==
    [][/\ (controller' # controller /\ controller'.returned.op = "check") =>
              LET elapsed == now - controller.last_heartbeat
                  due == (elapsed \div controller.heartbeat_interval) >= controller.miss_threshold
                  value == controller'.returned.value
              IN /\ value <=> (~controller.active /\ controller'.active)
                 /\ value <=> (due /\ ~controller.active)
                 /\ controller'.active <=> (controller.active \/ value)
                 /\ controller.active =>
                        ~value /\ controller'.qdisc = controller.qdisc
                 /\ ~value => controller'.qdisc = controller.qdisc
                 /\ controller'.last_heartbeat = controller.last_heartbeat
       /\ (controller' # controller /\ controller'.returned.op = "record_heartbeat") =>
              /\ ~controller'.active
              /\ controller'.last_heartbeat = now
      ]_vars

\* a check() has just activated the fallback after DEFAULT_MISS_THRESHOLD
\* intervals of 2 without a heartbeat, and the managed station runs sfq
C38_Witness ==
    /\ controller.returned = [op |-> "check", node |-> NoneStr, value |-> TRUE]
    /\ controller.active
    /\ controller.miss_threshold = DEFAULT_MISS_THRESHOLD
    /\ controller.heartbeat_interval = 2
    /\ now - controller.last_heartbeat = 6
    /\ controller.last_heartbeat > 0
    /\ controller.qdisc["sta1"] = "sfq"

\* C39: after any sequence of install_priority, remove_priority, activate and
\* deactivate calls, an install_priority(node) that returned True has left
\* the 3-band prio qdisc on the node's interface.
C39_InstallLeavesPrio ==
    (controller.returned.op = "install_priority" /\ controller.returned.value) =>
        controller.qdisc[controller.returned.node] = "prio"
====
